---- MODULE Spec2Model ----
(***************************************************************************)
(* Model of the gosim-project crawler / summariser / vector search.        *)
(*                                                                         *)
(*   SpecSearch : the hybrid ranked retrieval of src/src/vector_search.rs  *)
(*   SpecWalk   : the paginated GraphQL walks of src/src/issue_tracker.rs  *)
(*   SpecPipe   : summarisation and indexing over the store and the vector *)
(*                collection (src/src/db_populate.rs, vector_search.rs)    *)
(*   SpecRace   : two overlapping calls of upload_to_collection            *)
(*   SpecPrompt : the choice and the cut of the prompt                     *)
(*   SpecStore  : the writes and existence checks of db_populate.rs        *)
(*   SpecWriters: two writers of the same project or comment               *)
(*   SpecBacklog: the two `limit 50` selections on large backlogs          *)
(*   SpecDrain  : repeated summarization and indexing passes, with         *)
(*                fairness                                                 *)
(*   SpecSimple : the simple retrieval, search_collection                  *)
(*   SpecQuery  : both retrievals over ids of 5 to 8 segments              *)
(*   SpecHook   : the HTTP handlers of src/tester_hook/src/lib.rs          *)
(*                                                                         *)
(* Similarity scores are f32 in the code; here they are integers in        *)
(* hundredths (0.75 is 75), which keeps every comparison the code makes.   *)
(***************************************************************************)
EXTENDS Integers, Sequences, FiniteSets, TLC

VARIABLES
    \* ---- vector search ----
    index,           \* the points of the collection, in point-id order
    question,        \* the query text, as a sequence of words
    search_results,  \* what search_points returned to the last search
    results,         \* the Vec<(String, String)> the last search returned
    outcome,         \* "none" | "ok" | "ok_logged" | "err" | "panic"
    svc_calls,       \* the calls the last search made to the services
    \* ---- cursor walk ----
    walker,          \* which search_* function runs
    endpoint,        \* the GraphQL endpoint the walk talks to
    after_cursor,    \* Option<String>: <<>> is None, <<c>> is Some(c)
    all_items,       \* the accumulator (all_issues / all_pulls)
    iter,            \* iterations of `for _ in 0..10` entered so far
    requests,        \* the cursor carried by every request sent, in order
    responses,       \* every response received, in order
    wstatus,         \* "running" | "ok" | "err"
    wret,            \* the Ok value returned (<<>> until then and on Err)
    \* ---- summarisation and indexing ----
    issues_master,   \* table issues_master: issue_id -> issue_description
    repos,           \* the crawled repositories: project_id -> repo_readme
    summarized,      \* table issues_repos_summarized: entity id -> row
    pass,            \* the selected issues the summarization pass has left
    batch,           \* the indexing batch: rows selected and rows left
    last,            \* the last operation, its inputs and what it returned
    \* ---- overlapping uploads ----
    uploads,         \* the calls of upload_to_collection in flight
    \* ---- entity store ----
    store,           \* the tables projects, issues, pull_requests, ..
    sret,            \* the last call on the store: its input and its return
    writers,         \* the concurrent writers and where each one stands
    \* ---- backlog ----
    drain,           \* how many entities are in each state of the pipeline
    \* ---- HTTP handlers ----
    hook             \* the handler invoked, its request and what it did

searchVars == <<index, question, search_results, results, outcome,
                svc_calls>>
walkVars == <<walker, endpoint, after_cursor, all_items, iter, requests,
              responses, wstatus, wret>>
pipeVars == <<issues_master, repos, summarized, pass, batch, last>>
raceVars == <<uploads>>
storeVars == <<store, sret, writers>>
drainVars == <<drain>>
hookVars == <<hook>>
vars == <<index, question, search_results, results, outcome, svc_calls,
          walker, endpoint, after_cursor, all_items, iter, requests,
          responses, wstatus, wret,
          issues_master, repos, summarized, pass, batch, last, uploads,
          store, sret, writers, drain, hook>>

(***************************************************************************)
(* Bounds                                                                  *)
(***************************************************************************)
\* most issue-shaped entities in the collection
MaxIssuePts == 6
\* most project-shaped entities in the collection
MaxProjPts == 6
\* most pages the endpoint's result set spans
MaxPages == 12

\* the similarity scores a point can have against the query, highest first
ScoresDesc == <<95, 80, 75>>

\* the scores by which search_points ranks: those above, and the threshold
\* of the simple search
RankScores == <<95, 80, 79, 75>>

Range(s) == {s[i] : i \in 1..Len(s)}

Min(a, b) == IF a < b THEN a ELSE b

(***************************************************************************)
(* Entity ids are URLs.  The code only ever splits them on '/', so an id   *)
(* is modelled as the sequence of its '/'-separated segments.              *)
(***************************************************************************)
Num == <<"1", "2", "3", "4", "5", "6", "7", "8", "9">>

\* https://github.com/o/r/issues/<k>
IssueUrl(k) == <<"https:", "", "github.com", "o", "r", "issues", Num[k]>>
\* https://github.com/o/<k>
ProjectUrl(k) == <<"https:", "", "github.com", "o", Num[k]>>

\* issue_or_project_id.split('/').count()
SplitCount(id) == Len(id)

\* the summary text stored with an entity
SummaryOf(id) == <<"summary of">> \o id

\* the point upload_to_collection builds: id = points_count at upload time
Point(pid, eid, score) ==
    [id |-> pid,
     payload |-> [issue_or_project_id |-> eid, text |-> SummaryOf(eid)],
     score |-> score]

(***************************************************************************)
(* The collection a search runs against.  Its content is whatever the      *)
(* indexing passes uploaded; the order of the points does not influence a  *)
(* search except through ties, so a collection is described by how many    *)
(* entities of each shape have each score (issue-shaped entities first,    *)
(* highest score first).  upload_to_collection never looks for an existing *)
(* point of the entity, so an entity uploaded again gets a second point    *)
(* with the same payload under the next point id: `again` adds that point  *)
(* for the entity of point 0.                                              *)
(***************************************************************************)
RECURSIVE ScoreSeqFrom(_, _)
ScoreSeqFrom(c, k) ==
    IF k > Len(ScoresDesc) THEN <<>>
    ELSE [j \in 1..c[ScoresDesc[k]] |-> ScoresDesc[k]] \o ScoreSeqFrom(c, k + 1)

RECURSIVE CountSum(_, _)
CountSum(c, k) ==
    IF k > Len(ScoresDesc) THEN 0 ELSE c[ScoresDesc[k]] + CountSum(c, k + 1)

Collection(cI, cP, again) ==
    LET si == ScoreSeqFrom(cI, 1)
        sp == ScoreSeqFrom(cP, 1)
        base == [i \in 1..(Len(si) + Len(sp)) |->
                    IF i <= Len(si)
                    THEN Point(i - 1, IssueUrl(i), si[i])
                    ELSE Point(i - 1, ProjectUrl(i - Len(si)), sp[i - Len(si)])]
    IN  IF again /\ Len(base) > 0
        THEN Append(base, Point(Len(base), base[1].payload.issue_or_project_id,
                                base[1].score))
        ELSE base

(***************************************************************************)
(* search_points(collection, {vector, limit}): the vector store returns    *)
(* the `limit` highest-scoring points, highest first.  Which of several    *)
(* equally scored points make the cut is the store's choice; points of the *)
(* same shape and score are interchangeable, so the choice is how many of  *)
(* the tied points of each shape are returned.                             *)
(***************************************************************************)
RECURSIVE RankFrom(_, _, _)
RankFrom(idx, S, k) ==
    IF k > Len(RankScores) THEN <<>>
    ELSE SelectSeq([i \in 1..Len(idx) |-> i],
                   LAMBDA i : i \in S /\ idx[i].score = RankScores[k])
         \o RankFrom(idx, S, k + 1)

Ranked(idx, S) ==
    LET r == RankFrom(idx, S, 1) IN [j \in 1..Len(r) |-> idx[r[j]]]

search_points(idx, limit) ==
    LET n == Len(idx)
        all == [i \in 1..n |-> i]
    IN  IF n <= limit THEN {Ranked(idx, 1..n)}
        ELSE
          LET c == Ranked(idx, 1..n)[limit].score
              above == {i \in 1..n : idx[i].score > c}
              need == limit - Cardinality(above)
              tI == SelectSeq(all, LAMBDA i : idx[i].score = c /\
                        SplitCount(idx[i].payload.issue_or_project_id) = 7)
              tP == SelectSeq(all, LAMBDA i : idx[i].score = c /\
                        SplitCount(idx[i].payload.issue_or_project_id) # 7)
          IN  {Ranked(idx, above \cup Range(SubSeq(tI, 1, a))
                                 \cup Range(SubSeq(tP, 1, need - a))) :
                 a \in {a \in 0..need : a <= Len(tI) /\ need - a <= Len(tP)}}

(***************************************************************************)
(* search_collection_hybrid                                                *)
(***************************************************************************)
\* the queries tried; words are the maximal runs of word characters
Questions ==
    {<<"something", "broken">>,
     <<"open", "issue", "about", "crash">>,
     <<"Project", "roadmap">>,
     <<"ISSUE", "in", "project">>}

\* str::to_ascii_lowercase, on the words that occur in Questions
ToAsciiLowercase(w) ==
    CASE w = "Project" -> "project"
      [] w = "ISSUE" -> "issue"
      [] OTHER -> w

\* Regex::new(r"\bword\b").is_match(&question.to_ascii_lowercase())
IsMatch(word, q) == \E i \in 1..Len(q) : ToAsciiLowercase(q[i]) = word

is_project(q) == IsMatch("project", q)

\* faulty variant: the issue pattern is a copy of the project pattern
is_issue_CopyPaste(q) == IsMatch("project", q)
is_issue(q) == IsMatch("issue", q)

\* let desired_result_count = 5
desired_result_count == 5

\* faulty variant: a larger neighbour limit
HybridLimit_Twelve == 10 + 2
\* PointsSearchParams { limit: 10 }
HybridLimit == 10

\* faulty variant: the threshold itself passes
PassesThreshold_AtLeast(score) == score >= 75
\* if p.score > 0.75
PassesThreshold(score) == score > 75

\* faulty variant: longer ids count as issues too
is_sid_AtLeast(id) == SplitCount(id) >= 7
\* let is_sid = issue_or_project_id.split('/').count() == 7
is_sid(id) == SplitCount(id) = 7

\* (Reverse(p.score), issue_or_project_id, p_text)
Entry(p) ==
    [score |-> p.score, id |-> p.payload.issue_or_project_id,
     text |-> p.payload.text]

MapEntry(s) == [i \in 1..Len(s) |-> Entry(s[i])]

\* the entries pushed on issue_vec by the loop over search_results
IssuePushed(sr) ==
    MapEntry(SelectSeq(sr, LAMBDA p : PassesThreshold(p.score) /\
                                     is_sid(p.payload.issue_or_project_id)))

\* the entries pushed on project_vec by the loop over search_results
ProjectPushed(sr) ==
    MapEntry(SelectSeq(sr, LAMBDA p : PassesThreshold(p.score) /\
                                     ~is_sid(p.payload.issue_or_project_id)))

\* vec.sort_by(|a, b| a.0.partial_cmp(&b.0)...): a stable sort, ascending in
\* Reverse(score), which is descending in score
InsertSorted(e, s) ==
    LET k == Cardinality({i \in 1..Len(s) : s[i].score >= e.score})
    IN  SubSeq(s, 1, k) \o <<e>> \o SubSeq(s, k + 1, Len(s))

RECURSIVE SortByReverseScore(_)
SortByReverseScore(v) ==
    IF v = <<>> THEN <<>>
    ELSE InsertSorted(v[Len(v)], SortByReverseScore(SubSeq(v, 1, Len(v) - 1)))

\* fn extract_results(vec, results, count): pops from the back of vec
RECURSIVE extract_results(_, _, _)
extract_results(vec, res, count) ==
    IF vec = <<>> THEN [vec |-> vec, results |-> res]
    ELSE LET e == vec[Len(vec)]
             v2 == SubSeq(vec, 1, Len(vec) - 1)
             r2 == Append(res, <<e.id, e.text>>)
         IN  IF Len(r2) >= count THEN [vec |-> v2, results |-> r2]
             ELSE extract_results(v2, r2, count)

\* faulty variant: no fallback block after the two intent blocks
Assemble_NoFallback(wantsProject, wantsIssue, project_vec, issue_vec) ==
    LET p1 == IF wantsProject
              THEN extract_results(project_vec, <<>>, desired_result_count)
              ELSE [vec |-> project_vec, results |-> <<>>]
        p2 == IF wantsIssue /\ Len(p1.results) < desired_result_count
              THEN extract_results(issue_vec, p1.results, desired_result_count)
              ELSE [vec |-> issue_vec, results |-> p1.results]
    IN  p2.results
\* the three `if` blocks that fill `results`
Assemble(wantsProject, wantsIssue, project_vec, issue_vec) ==
    LET p1 == IF wantsProject
              THEN extract_results(project_vec, <<>>, desired_result_count)
              ELSE [vec |-> project_vec, results |-> <<>>]
        p2 == IF wantsIssue /\ Len(p1.results) < desired_result_count
              THEN extract_results(issue_vec, p1.results, desired_result_count)
              ELSE [vec |-> issue_vec, results |-> p1.results]
    IN  IF Len(p2.results) < desired_result_count
        THEN LET a == extract_results(p1.vec, p2.results, desired_result_count)
                 b == extract_results(p2.vec, a.results, desired_result_count)
             IN  b.results
        ELSE p2.results

\* what openai.create_embeddings(..).await gives: Ok with a vector, Ok with
\* an empty list, or Err
Embeddings == {"vector", "empty", "error"}

\* faulty variant: an empty list of embeddings is taken for a vector
Embedded_NotErr(e) == e # "error"
\* Ok(r) if !r.is_empty() (hybrid); Ok(r) with r.len() >= 1 (simple)
Embedded(e) == e = "vector"

\* faulty variant: a failed neighbour search is returned as Err
OnSearchError_Returned(fn) == "err"
\* what a failed search_points leads to: .expect("search point failure") in
\* the hybrid search; Err(e) => log::error!(..) and Ok(out) in the simple one
OnSearchError(fn) ==
    IF fn = "search_collection_hybrid" THEN "panic" ELSE "ok_logged"

\* one call to an outside service and what it gave
Called(by, svc, gave) == [by |-> by, svc |-> svc, gave |-> gave]

HybridResults(q, sr) ==
    Assemble(is_project(q), is_issue(q),
             SortByReverseScore(ProjectPushed(sr)),
             SortByReverseScore(IssuePushed(sr)))

\* one call of search_collection_hybrid(question, collection_name)
search_collection_hybrid ==
    /\ outcome = "none"
    /\ \E q \in Questions, e \in Embeddings, searchOk \in BOOLEAN :
         /\ question' = q
         /\ IF ~Embedded(e)
            THEN \* create_embeddings failed or returned no vector
                 /\ outcome' = "err"
                 /\ svc_calls' = <<Called("search_collection_hybrid", "create_embeddings", e)>>
                 /\ search_results' = <<>>
                 /\ results' = <<>>
            ELSE IF ~searchOk
            THEN \* search_points(..).expect("search point failure")
                 /\ outcome' = OnSearchError("search_collection_hybrid")
                 /\ svc_calls' = <<Called("search_collection_hybrid", "create_embeddings", e),
                                   Called("search_collection_hybrid", "search_points", "error")>>
                 /\ search_results' = <<>>
                 /\ results' = <<>>
            ELSE \E sr \in search_points(index, HybridLimit) :
                 /\ search_results' = sr
                 /\ results' = HybridResults(q, sr)
                 /\ svc_calls' = <<Called("search_collection_hybrid", "create_embeddings", e),
                                   Called("search_collection_hybrid", "search_points", "points")>>
                 /\ outcome' = "ok"
    /\ UNCHANGED index
    /\ UNCHANGED walkVars
    /\ UNCHANGED <<pipeVars, raceVars, storeVars, drainVars, hookVars>>

WalkIdle ==
    /\ walker = "none"
    /\ endpoint = <<>>
    /\ after_cursor = <<>>
    /\ all_items = <<>>
    /\ iter = 0
    /\ requests = <<>>
    /\ responses = <<>>
    /\ wstatus = "idle"
    /\ wret = <<>>

PipeIdle ==
    /\ issues_master = <<>>
    /\ repos = <<>>
    /\ summarized = <<>>
    /\ pass = {}
    /\ batch = <<>>
    /\ last = <<>>

RaceIdle == uploads = <<>>

StoreIdle ==
    /\ store = <<>>
    /\ sret = <<>>
    /\ writers = <<>>

DrainIdle == drain = <<>>

HookIdle == hook = <<>>

ScoreCounts(max) ==
    {c \in [Range(ScoresDesc) -> 0..max] : CountSum(c, 1) <= max}

InitSearch ==
    /\ \E cI \in ScoreCounts(MaxIssuePts), cP \in ScoreCounts(MaxProjPts),
          again \in BOOLEAN :
         /\ again => CountSum(cI, 1) + CountSum(cP, 1) > 0
         /\ index = Collection(cI, cP, again)
    /\ question = <<>>
    /\ search_results = <<>>
    /\ results = <<>>
    /\ outcome = "none"
    /\ svc_calls = <<>>
    /\ WalkIdle
    /\ PipeIdle
    /\ RaceIdle
    /\ StoreIdle
    /\ DrainIdle
    /\ HookIdle

NextSearch == search_collection_hybrid

SpecSearch == InitSearch /\ [][NextSearch]_vars

(***************************************************************************)
(* Properties of the hybrid search.  The candidate pools are restated here *)
(* from the retrieved points, independently of the operators above.        *)
(***************************************************************************)
Searched == outcome = "ok"

SegmentsOf(p) == Len(p.payload.issue_or_project_id)

\* retrieved candidates scoring strictly above 0.75
Survivors == SelectSeq(search_results, LAMBDA p : p.score > 75)
\* ... with an id of exactly 7 segments
IssueSurvivors == SelectSeq(Survivors, LAMBDA p : SegmentsOf(p) = 7)
\* ... with any other id
ProjectSurvivors == SelectSeq(Survivors, LAMBDA p : SegmentsOf(p) # 7)

\* the (entity_id, text) pair a point is returned as
Pair(p) == <<p.payload.issue_or_project_id, p.payload.text>>

\* the score of the retrieved candidate a returned pair stands for
ScoreOfPair(r) == (CHOOSE p \in Range(search_results) : Pair(p) = r).score

FromCandidates(rs) ==
    \A i \in 1..Len(rs) : \E p \in Range(search_results) : Pair(p) = rs[i]

\* how many members of a sequence of scores equal s
CountOf(sc, s) == Cardinality({i \in 1..Len(sc) : sc[i] = s})

ScoresOfPairs(rs) == [i \in 1..Len(rs) |-> ScoreOfPair(rs[i])]
ScoresOfPoints(ps) == [i \in 1..Len(ps) |-> ps[i].score]

\* the k highest scores of a sequence of scores, as a count per score
RECURSIVE TopCount(_, _, _, _)
TopCount(sc, k, lvl, s) ==
    IF lvl > Len(ScoresDesc) THEN 0
    ELSE LET here == Min(k, CountOf(sc, ScoresDesc[lvl]))
         IN  IF ScoresDesc[lvl] = s THEN here
             ELSE TopCount(sc, k - here, lvl + 1, s)

\* rs are Len(rs) highest-scoring members of pool
AreHighestOf(rs, pool) ==
    /\ FromCandidates(rs)
    /\ \A s \in Range(ScoresDesc) :
          CountOf(ScoresOfPairs(rs), s)
            = TopCount(ScoresOfPoints(pool), Len(rs), 1, s)

Descending(sc) == \A i \in 1..(Len(sc) - 1) : sc[i] >= sc[i + 1]

\* C1: a hybrid search returns at most 5 entries, whatever the intent flags
\* and the sizes of the two pools.
C1_AtMostFive == Searched => Len(results) <= 5

\* C2: every returned entry is a retrieved candidate scoring strictly above
\* 0.75, and no candidate scoring 0.75 or less is returned.
C2_AboveThreshold ==
    Searched =>
      /\ \A i \in 1..Len(results) :
            \E p \in Range(search_results) : Pair(p) = results[i] /\ p.score > 75
      /\ \A p \in Range(search_results) :
            p.score <= 75 => Pair(p) \notin Range(results)

C2_Witness ==
    /\ Searched
    /\ Len(results) > 0
    /\ \E p \in Range(search_results) : p.score = 75

\* C3 (as stated): with the word "issue" in the query and at least 5 survivors
\* in each pool, the result is exactly the 5 highest-scoring issue entries.
C3_Original ==
    (Searched /\ IsMatch("issue", question)
       /\ Len(IssueSurvivors) >= 5 /\ Len(ProjectSurvivors) >= 5)
    => /\ Len(results) = 5
       /\ \A i \in 1..Len(results) : Len(results[i][1]) = 7
       /\ AreHighestOf(results, IssueSurvivors)

\* C3 (amended): the same, for a query that contains "issue" and does not
\* contain "project".
C3_IssueOnly ==
    (Searched /\ IsMatch("issue", question) /\ ~IsMatch("project", question)
       /\ Len(IssueSurvivors) >= 5 /\ Len(ProjectSurvivors) >= 5)
    => /\ Len(results) = 5
       /\ \A i \in 1..Len(results) : Len(results[i][1]) = 7
       /\ AreHighestOf(results, IssueSurvivors)

C3_Witness ==
    /\ Searched
    /\ IsMatch("issue", question) /\ ~IsMatch("project", question)
    /\ Len(IssueSurvivors) >= 5 /\ Len(ProjectSurvivors) >= 5
    /\ Len(results) = 5

\* the collection holds n issue-shaped points above 0.75 or more
HoldsIssuePoints(n) ==
    Cardinality({i \in 1..Len(index) :
        SegmentsOf(index[i]) = 7 /\ index[i].score > 75}) >= n

HoldsProjectPoints(n) ==
    Cardinality({i \in 1..Len(index) : SegmentsOf(index[i]) # 7}) >= n

\* every project-shaped point scores higher than every issue-shaped point
ProjectsOutscoreIssues ==
    \A i, j \in 1..Len(index) :
        (SegmentsOf(index[i]) # 7 /\ SegmentsOf(index[j]) = 7)
          => index[i].score > index[j].score

\* C4 (as stated): the query "open issue about crash" over a collection of 6
\* issue points above 0.75 and 6 higher-scoring project points returns 5
\* issue ids and no project id.
C4_Original ==
    (Searched /\ question = <<"open", "issue", "about", "crash">>
       /\ HoldsIssuePoints(6) /\ HoldsProjectPoints(6) /\ ProjectsOutscoreIssues)
    => /\ Len(results) = 5
       /\ \A i \in 1..Len(results) : Len(results[i][1]) = 7

\* C4 (amended): with "issue" and without "project" in the query, 5 issue ids
\* and no project id are returned when at least 5 issue points above 0.75 are
\* among the 10 retrieved neighbours; issue points that higher-scoring
\* project points push out of the 10 neighbours are not returned.
C4_IssuesAmongRetrieved ==
    (Searched /\ IsMatch("issue", question) /\ ~IsMatch("project", question))
    => /\ Len(IssueSurvivors) >= 5
          => /\ Len(results) = 5
             /\ \A i \in 1..Len(results) : Len(results[i][1]) = 7
       /\ Len(search_results) <= 10
       /\ FromCandidates(results)

C4_Witness ==
    /\ Searched
    /\ IsMatch("issue", question) /\ ~IsMatch("project", question)
    /\ ProjectsOutscoreIssues /\ HoldsProjectPoints(5)
    /\ Len(index) > 10
    /\ Len(IssueSurvivors) >= 5
    /\ Len(results) = 5

\* C5: with no intent word, 2 project survivors and 4 issue survivors, the
\* result is the 2 project entries followed by the 3 highest-scoring issue
\* entries, each segment in descending score order.
C5_Fallback ==
    (Searched /\ ~IsMatch("issue", question) /\ ~IsMatch("project", question)
       /\ Len(ProjectSurvivors) = 2 /\ Len(IssueSurvivors) = 4)
    => /\ Len(results) = 5
       /\ FromCandidates(results)
       /\ \A i \in 1..2 : Len(results[i][1]) # 7
       /\ \A i \in 3..5 : Len(results[i][1]) = 7
       /\ AreHighestOf(SubSeq(results, 3, 5), IssueSurvivors)
       /\ Descending(ScoresOfPairs(SubSeq(results, 1, 2)))
       /\ Descending(ScoresOfPairs(SubSeq(results, 3, 5)))

\* C6: with n survivors the result has at least min(5, n) entries, and a
\* result shorter than 5 leaves no survivor out.
C6_FillsUp ==
    Searched =>
      /\ Len(results) >= Min(5, Len(Survivors))
      /\ Len(results) < 5 => Len(results) = Len(Survivors)
      /\ \A p \in Range(Survivors) :
            Len(results) < 5 => Pair(p) \in Range(results)

C6_Witness ==
    /\ Searched
    /\ Len(ProjectSurvivors) \in 1..2
    /\ Len(IssueSurvivors) \in 1..2
    /\ Len(results) = Len(Survivors)

\* C7: no two entries of a result carry the same entity_id.
C7_NoDuplicateIds ==
    Searched =>
      \A i, j \in 1..Len(results) : i # j => results[i][1] # results[j][1]

(***************************************************************************)
(* The cursor walks of issue_tracker.rs.                                   *)
(*                                                                         *)
(* The endpoint serves a result set of `pages` pages.  The request with a  *)
(* null cursor gets page 1; the end cursor of page p is p, and a request   *)
(* carrying it gets page p + 1.  One kind of fault can hit the request     *)
(* number `at` (and every later one when `persistent`).                    *)
(***************************************************************************)
\* the five walks that carry a cursor from page to page
Walkers ==
    {"search_issues_open", "search_issues_closed", "search_issues_assigned",
     "search_pull_requests", "search_mock_user"}

Faults ==
    {"none", "transport", "decode", "no_data", "no_search", "no_nodes",
     "no_page_info", "null_cursor", "node_missing", "node_malformed"}

\* faults of one node of a page: the node comes without title, url and body,
\* or with a field of another JSON type than the query's schema gives it
NodeFaults == {"node_missing", "node_malformed"}

\* nodes carried by one page (the code asks for `first: 100`)
NodesPerPage == 2

\* faulty variant: one iteration more
PageCap_Eleven == 10 + 1
\* for _ in 0..10
PageCap == 10

Endpoints ==
    {[pages |-> n, fault |-> "none", at |-> 1, persistent |-> FALSE] :
        n \in 1..MaxPages}
    \cup
    [pages : 1..MaxPages, fault : Faults \ {"none"}, at : 1..PageCap,
     persistent : BOOLEAN]

None == <<>>
Some(x) == <<x>>

PageOf(cursor) == IF cursor = None THEN 1 ELSE cursor[1] + 1

PageNodes(p) == [j \in 1..NodesPerPage |-> <<p, j>>]

\* the nodes of page p as the endpoint sends them: under a node fault the
\* first node of the page is the faulty one
SentNodes(p, f) ==
    [j \in 1..NodesPerPage |->
        IF f \in NodeFaults /\ j = 1 THEN <<p, j, f>> ELSE <<p, j>>]

IsFaultyNode(node) == Len(node) = 3

\* what github_http_post_gql and serde_json::from_slice yield for the
\* request number reqNo carrying `cursor`
Response(ep, cursor, reqNo) ==
    LET p == PageOf(cursor)
        f == IF ep.fault # "none" /\
                (reqNo = ep.at \/ (ep.persistent /\ reqNo >= ep.at))
             THEN ep.fault ELSE "none"
    IN  IF f = "transport" THEN [kind |-> "transport_error"]
        ELSE IF f = "decode" THEN [kind |-> "undecodable"]
        ELSE [kind |-> "body",
              data |-> f # "no_data",
              search |-> f \notin {"no_data", "no_search"},
              nodes |-> IF f \in {"no_data", "no_search", "no_nodes"}
                        THEN None ELSE Some(SentNodes(p, f)),
              pageInfo |->
                 IF f \in {"no_data", "no_search", "no_page_info"} THEN None
                 ELSE Some([hasNextPage |-> p < ep.pages,
                            endCursor |-> IF f = "null_cursor" THEN None
                                          ELSE Some(p)])]

\* the element type each walk collects
ItemType(w) ==
    CASE w = "search_issues_open" -> "IssueOpen"
      [] w = "search_issues_closed" -> "IssueClosed"
      [] w = "search_issues_assigned" -> "IssueAssigned"
      [] w = "search_pull_requests" -> "OuterPull"
      [] w = "search_mock_user" -> "Participant"
      [] w = "search_repos_in_batch" -> "RepoData"

\* the node fields that the walk's node struct declares without Option
RequiredNodeFields(w) ==
    CASE w = "search_issues_open" -> {"title", "url"}
      [] w = "search_repos_in_batch" -> {"url"}
      [] OTHER -> {}

\* serde on one node: a field of the wrong JSON type is an error whatever the
\* declaration, an absent field is an error when the declaration is not Option
NodeDecodes(w, node) ==
    IsFaultyNode(node) =>
        /\ node[3] = "node_missing"
        /\ RequiredNodeFields(w) = {}

\* serde_json::from_slice into the walk's GraphQLResponse: one node that does
\* not decode makes the decoding of the whole body fail
from_slice(w, raw) ==
    IF raw.kind = "body" /\ raw.nodes # None /\
       \E j \in 1..Len(raw.nodes[1]) : ~NodeDecodes(w, raw.nodes[1][j])
    THEN [kind |-> "undecodable"]
    ELSE raw

\* the pushes of `for node in nodes`; search_issues_closed leaves out a node
\* without url (`None => continue`)
RECURSIVE Decoded(_, _)
Decoded(w, nodes) ==
    IF nodes = <<>> THEN <<>>
    ELSE IF w = "search_issues_closed" /\ IsFaultyNode(nodes[1])
         THEN Decoded(w, Tail(nodes))
         ELSE <<<<ItemType(w), nodes[1]>>>> \o Decoded(w, Tail(nodes))

\* faulty variant: the failure ends the loop and what was collected is returned
Propagate_Partial(items) == [status |-> "ok", ret |-> <<"Ok", items>>]
\* `?` on the result of the request or of the decoding: the function
\* returns Err and the accumulator is dropped
Propagate(items) == [status |-> "err", ret |-> <<"Err">>]

\* one iteration of `for _ in 0..10 { ... }` of walk w, with the return that
\* follows the loop when the iteration is the last one.  In
\* search_pull_requests the pageInfo block sits inside `if let Some(nodes)`;
\* in the other walks it follows it.
WalkIteration(w, pageInfoInsideNodes) ==
    /\ wstatus = "running"
    /\ iter < PageCap
    /\ LET resp == from_slice(w, Response(endpoint, after_cursor, iter + 1))
       IN
       /\ requests' = Append(requests, after_cursor)
       /\ responses' = Append(responses, resp)
       /\ iter' = iter + 1
       /\ IF resp.kind # "body"
          THEN /\ wstatus' = Propagate(all_items).status
               /\ wret' = Propagate(all_items).ret
               /\ UNCHANGED <<all_items, after_cursor>>
          ELSE
            LET inSearch == resp.data /\ resp.search
                hasNodes == inSearch /\ resp.nodes # None
                items == IF hasNodes
                         THEN all_items \o Decoded(w, resp.nodes[1])
                         ELSE all_items
                seesPageInfo ==
                    /\ inSearch
                    /\ pageInfoInsideNodes => hasNodes
                    /\ resp.pageInfo # None
                break == seesPageInfo /\ ~resp.pageInfo[1].hasNextPage
            IN
            /\ all_items' = items
            /\ after_cursor' =
                  IF seesPageInfo /\ resp.pageInfo[1].hasNextPage
                  THEN resp.pageInfo[1].endCursor
                  ELSE after_cursor
            /\ IF break \/ iter + 1 = PageCap
               THEN wstatus' = "ok" /\ wret' = <<"Ok", items>>
               ELSE wstatus' = "running" /\ wret' = wret
    /\ UNCHANGED <<walker, endpoint>>
    /\ UNCHANGED searchVars
    /\ UNCHANGED <<pipeVars, raceVars, storeVars, drainVars, hookVars>>

search_issues_open ==
    /\ walker = "search_issues_open"
    /\ WalkIteration("search_issues_open", FALSE)

search_issues_closed ==
    /\ walker = "search_issues_closed"
    /\ WalkIteration("search_issues_closed", FALSE)

search_issues_assigned ==
    /\ walker = "search_issues_assigned"
    /\ WalkIteration("search_issues_assigned", FALSE)

search_pull_requests ==
    /\ walker = "search_pull_requests"
    /\ WalkIteration("search_pull_requests", TRUE)

search_mock_user ==
    /\ walker = "search_mock_user"
    /\ WalkIteration("search_mock_user", FALSE)


\* search_repos_in_batch(query): one request without cursor, no loop; the
\* query does not ask for pageInfo and the Search struct has no such field
search_repos_in_batch ==
    /\ walker = "search_repos_in_batch"
    /\ wstatus = "running"
    /\ LET resp == from_slice("search_repos_in_batch",
                              Response(endpoint, None, 1))
       IN
       /\ requests' = Append(requests, None)
       /\ responses' = Append(responses, resp)
       /\ IF resp.kind # "body"
          THEN /\ wstatus' = Propagate(all_items).status
               /\ wret' = Propagate(all_items).ret
               /\ UNCHANGED all_items
          ELSE
            LET items == IF resp.data /\ resp.search /\ resp.nodes # None
                         THEN all_items \o
                              Decoded("search_repos_in_batch", resp.nodes[1])
                         ELSE all_items
            IN  /\ all_items' = items
                /\ wstatus' = "ok"
                /\ wret' = <<"Ok", items>>
    /\ UNCHANGED <<walker, endpoint, after_cursor, iter>>
    /\ UNCHANGED searchVars
    /\ UNCHANGED <<pipeVars, raceVars, storeVars, drainVars, hookVars>>

SearchIdle ==
    /\ index = <<>>
    /\ question = <<>>
    /\ search_results = <<>>
    /\ results = <<>>
    /\ outcome = "none"
    /\ svc_calls = <<>>

InitWalk ==
    /\ walker \in Walkers \cup {"search_repos_in_batch"}
    /\ endpoint \in Endpoints
    /\ after_cursor = None
    /\ all_items = <<>>
    /\ iter = 0
    /\ requests = <<>>
    /\ responses = <<>>
    /\ wstatus = "running"
    /\ wret = <<>>
    /\ SearchIdle
    /\ PipeIdle
    /\ RaceIdle
    /\ StoreIdle
    /\ DrainIdle
    /\ HookIdle

NextWalk ==
    \/ search_issues_open
    \/ search_issues_closed
    \/ search_issues_assigned
    \/ search_pull_requests
    \/ search_mock_user
    \/ search_repos_in_batch

SpecWalk == InitWalk /\ [][NextWalk]_vars

(***************************************************************************)
(* Properties of the walks, stated on the requests sent and the responses  *)
(* received.                                                               *)
(***************************************************************************)
IsBody(r) == r.kind = "body"

\* the response carries a pageInfo
HasPageInfo(r) == IsBody(r) /\ r.data /\ r.search /\ r.pageInfo # <<>>

SaysMore(r) == HasPageInfo(r) /\ r.pageInfo[1].hasNextPage

SaysNoMore(r) == HasPageInfo(r) /\ ~r.pageInfo[1].hasNextPage

\* a node that yields an item: every node, except that a closed issue
\* without url yields none
YieldsItem(node) == ~(walker = "search_issues_closed" /\ Len(node) = 3)

\* the nodes a response carries, as items of the walk's element type
NodesIn(r) ==
    IF IsBody(r) /\ r.data /\ r.search /\ r.nodes # <<>>
    THEN LET kept == SelectSeq(r.nodes[1], YieldsItem)
         IN  [j \in 1..Len(kept) |-> <<ItemType(walker), kept[j]>>]
    ELSE <<>>

\* concatenation, in fetch order, of the nodes of the first k responses
RECURSIVE NodesUpTo(_)
NodesUpTo(k) == IF k = 0 THEN <<>> ELSE NodesUpTo(k - 1) \o NodesIn(responses[k])

\* C8: while every page reports hasNextPage=true the walk goes on, it ends
\* with the 10th request and returns the nodes of those 10 pages in order.
C8_PageCap ==
    (walker \in Walkers /\ \A i \in 1..Len(responses) : SaysMore(responses[i]))
    => /\ Len(requests) <= 10
       /\ wstatus = "ok" <=> Len(requests) = 10
       /\ wstatus # "err"
       /\ wstatus = "ok" => wret = <<"Ok", NodesUpTo(10)>>

C8_Witness ==
    /\ wstatus = "ok"
    /\ Len(requests) = 10
    /\ \A i \in 1..10 : SaysMore(responses[i])
    /\ endpoint.pages > 10
    /\ endpoint.fault = "none"

\* C9: if page k is the first to declare no further pages, k requests are
\* issued, each carrying the end cursor of the page before (the first a null
\* cursor), and the result is the nodes of pages 1..k.
C9_StopsAtLastPage ==
    \A k \in 1..Len(responses) :
      (k <= 10 /\ SaysNoMore(responses[k])
         /\ \A i \in 1..(k - 1) : ~SaysNoMore(responses[i]))
      => /\ Len(requests) = k
         /\ requests[1] = <<>>
         /\ \A i \in 1..(k - 1) :
               SaysMore(responses[i])
                 => requests[i + 1] = responses[i].pageInfo[1].endCursor
         /\ wstatus = "ok"
         /\ wret = <<"Ok", NodesUpTo(k)>>

\* C10: a transport failure or an undecodable body on any page makes the
\* walk return an error without the nodes of earlier pages, and no request
\* follows the failed one.
C10_FailureAborts ==
    \A k \in 1..Len(responses) :
      ~IsBody(responses[k])
      => /\ wstatus = "err"
         /\ wret = <<"Err">>
         /\ Len(requests) = k

C10_Witness ==
    /\ wstatus = "err"
    /\ Len(requests) >= 3
    /\ all_items # <<>>
    /\ wret = <<"Err">>

\* the request number k was answered with a page holding a faulty node
FaultyNodeSent(k) ==
    /\ endpoint.fault \in NodeFaults
    /\ k = endpoint.at \/ (endpoint.persistent /\ k >= endpoint.at)

\* C11: for every walk, a page holding one node with a missing or malformed
\* field is decoded without error, and the other nodes of the page are
\* returned.
C11_BadNodeTolerated ==
    \A k \in 1..Len(responses) :
      FaultyNodeSent(k)
      => /\ IsBody(responses[k])
         /\ wstatus # "err"
         /\ wstatus = "ok" =>
               \A j \in 2..NodesPerPage :
                 \E i \in 1..Len(wret[2]) :
                   wret[2][i] = <<ItemType(walker), <<PageOf(requests[k]), j>>>>

\* C12: when the first page of the project search declares further pages,
\* the walk ends only after it has fetched the pages that follow, each
\* request carrying the end cursor of the page before, and returns their
\* nodes.
C12_ProjectsPaginated ==
    (walker = "search_repos_in_batch" /\ wstatus = "ok"
       /\ endpoint.fault = "none" /\ endpoint.pages > 1)
    => /\ Len(requests) = Min(endpoint.pages, PageCap)
       /\ \A i \in 2..Len(requests) : requests[i] = Some(i - 1)
       /\ wret = <<"Ok", NodesUpTo(Len(requests))>>
       /\ Len(wret[2]) > NodesPerPage

(***************************************************************************)
(* Summarisation and indexing.                                             *)
(*                                                                         *)
(* A text is modelled by its length in characters and in bytes (UTF-8: a   *)
(* character takes 1 to 4 bytes).  The reply of the generation service is  *)
(* either a failure of the call or a text, which is or is not JSON and has *)
(* or lacks the fields summary and keywords.                               *)
(***************************************************************************)
\* most issues in issues_master
MaxIssues == 1
\* most points the collection grows to
MaxPoints == 2

Issues == {IssueUrl(k) : k \in 1..MaxIssues}
\* the crawl returns one repository
Projects == {ProjectUrl(1)}

Text(chars, bytes) == [chars |-> chars, bytes |-> bytes]

\* String::len() is the length in bytes
StrLen(text) == text.bytes

\* the body every issue and repository of the pipeline has
PlainBody == Text(199, 199)

\* replies of the generation service
GoodReply ==
    [json |-> TRUE, summary |-> Some("s"), keywords |-> Some(<<"k">>)]
NoFieldsReply == [json |-> TRUE, summary |-> None, keywords |-> None]
NotJsonReply == [json |-> FALSE, summary |-> None, keywords |-> None]
Replies == {GoodReply, NoFieldsReply, NotJsonReply}

\* what one call of the generation service can come to
GenOutcomes ==
    {[ok |-> FALSE, text |-> NotJsonReply]}
    \cup {[ok |-> TRUE, text |-> t] : t \in Replies}

\* chat_inner_async(system_prompt, user_input, max_token): one call of the
\* generation service; Err when the call fails, the reply text otherwise
chat_inner_async(gen) ==
    IF ~gen.ok THEN [ret |-> "Err", calls |-> 1]
    ELSE [ret |-> "Ok", text |-> gen.text, calls |-> 1]

\* parse_summary_and_keywords(&generated_summary): fails soft
parse_summary_and_keywords(text) ==
    IF text.json /\ text.summary # None /\ text.keywords # None
    THEN [summary |-> text.summary[1], keyword_tags |-> text.keywords[1]]
    ELSE [summary |-> "", keyword_tags |-> <<>>]

\* `if issue_description.len() < 200` / `if project_readme.len() < 200`
PromptFor(body) ==
    IF StrLen(body) < 200
    THEN [variant |-> "short", max_token |-> 180]
    ELSE [variant |-> "long", max_token |-> 250]

\* characters of the long-input format string before the body: the literal
\* text, the title (issue) or language and description (project), and the
\* repository and owner names, parts[4] and parts[3] of the id
LongPrefixChars(kind, lead) ==
    IF kind = "issue" THEN 94 + lead + 2 ELSE 121 + lead + 2

\* `.chars().take(4000)` of the long input
InputTake == 4000

\* characters of the title, or of the language and description, before the
\* body
LeadChars == {0, 60}

\* the characters of the body that reach the generation service: all of them
\* in the short input, which is not cut; in the long input what is left of
\* the first 4000 characters of the whole formatted text after the prefix
BodyCharsSent(kind, lead, body) ==
    IF PromptFor(body).variant = "short" THEN body.chars
    ELSE LET room == InputTake - LongPrefixChars(kind, lead)
         IN  IF room <= 0 THEN 0 ELSE Min(body.chars, room)

HasRow(tbl, id) == id \in DOMAIN tbl

\* faulty variant: a new row counts as indexed
NewRow_Indexed(summary, keyword_tags) ==
    [summary |-> summary, keyword_tags |-> keyword_tags, indexed |-> TRUE]
\* the row the INSERT creates: it names three columns, the column indexed
\* takes its default, which the selection `WHERE indexed=0` reads as 0
NewRow(summary, keyword_tags) ==
    [summary |-> summary, keyword_tags |-> keyword_tags, indexed |-> FALSE]

\* faulty variant: the duplicate key updates the summary as well
InsertOrUpdate_Replace(tbl, id, summary, keyword_tags) ==
    [e \in DOMAIN tbl \cup {id} |->
        IF e # id THEN tbl[e]
        ELSE IF HasRow(tbl, id)
             THEN [tbl[id] EXCEPT !.summary = summary,
                                  !.keyword_tags = keyword_tags]
             ELSE NewRow(summary, keyword_tags)]
\* INSERT INTO issues_repos_summarized (id, summary, keyword_tags) VALUES ..
\* ON DUPLICATE KEY UPDATE keyword_tags = ..; the column indexed takes its
\* default on insert
InsertOrUpdate(tbl, id, summary, keyword_tags) ==
    [e \in DOMAIN tbl \cup {id} |->
        IF e # id THEN tbl[e]
        ELSE IF HasRow(tbl, id)
             THEN [tbl[id] EXCEPT !.keyword_tags = keyword_tags]
             ELSE NewRow(summary, keyword_tags)]

\* faulty variant: an empty summary is not written
add_or_update_summary_and_id_SkipEmpty(tbl, id, summary, keyword_tags, dbOk) ==
    IF dbOk
    THEN [tbl |-> IF summary = "" THEN tbl
                  ELSE InsertOrUpdate(tbl, id, summary, keyword_tags),
          ret |-> "Ok"]
    ELSE [tbl |-> tbl, ret |-> "Err"]
\* add_or_update_summary_and_id: the statement, and Err when it fails
add_or_update_summary_and_id(tbl, id, summary, keyword_tags, dbOk) ==
    IF dbOk
    THEN [tbl |-> InsertOrUpdate(tbl, id, summary, keyword_tags), ret |-> "Ok"]
    ELSE [tbl |-> tbl, ret |-> "Err"]

\* faulty variant: a failed generation is recorded as an empty summary
Summarize_RecordsFailure(tbl, id, body, gen, dbOk) ==
    LET prompt == PromptFor(body)
        chat == chat_inner_async(gen)
    IN  IF chat.ret = "Err"
        THEN [tbl |-> InsertOrUpdate(tbl, id, "", <<>>), ret |-> "Err",
              prompt |-> prompt, calls |-> chat.calls, wrote |-> "Ok"]
        ELSE LET parsed == parse_summary_and_keywords(chat.text)
                 w == add_or_update_summary_and_id(
                          tbl, id, parsed.summary, parsed.keyword_tags, dbOk)
             IN  [tbl |-> w.tbl, ret |-> "Ok", prompt |-> prompt,
                  calls |-> chat.calls, wrote |-> w.ret]
\* the body of summarize_issue_add_in_db and summarize_project_add_in_db:
\* the prompt is chosen, the generation service is called once and its
\* failure returned (`.await?`), the reply is parsed and written, and the
\* result of the write is dropped (`let _ =`)
Summarize(tbl, id, body, gen, dbOk) ==
    LET prompt == PromptFor(body)
        chat == chat_inner_async(gen)
    IN  IF chat.ret = "Err"
        THEN [tbl |-> tbl, ret |-> "Err", prompt |-> prompt,
              calls |-> chat.calls, wrote |-> "none"]
        ELSE LET parsed == parse_summary_and_keywords(chat.text)
                 w == add_or_update_summary_and_id(
                          tbl, id, parsed.summary, parsed.keyword_tags, dbOk)
             IN  [tbl |-> w.tbl, ret |-> "Ok", prompt |-> prompt,
                  calls |-> chat.calls, wrote |-> w.ret]

\* `limit 50` of both selections
SelectLimit == 50

RECURSIVE Without(_, _)
\* the subsets of rows that lack k of the rows
Without(rows, k) ==
    IF k = 0 THEN {rows}
    ELSE UNION {Without(rows \ {r}, k - 1) : r \in rows}

\* faulty variant: the selection has no limit
Limited_All(rows) == {rows}
\* what SELECT .. limit 50 can return of the rows that match: all of them
\* when they are at most 50, otherwise some 50 of them
Limited(rows) ==
    IF Cardinality(rows) <= SelectLimit THEN {rows}
    ELSE Without(rows, Cardinality(rows) - SelectLimit)

\* faulty variant: the selection looks at the indexed flag
Unsummarized_ByFlag(master, tbl) ==
    {id \in DOMAIN master : HasRow(tbl, id) => ~tbl[id].indexed}
\* .. FROM issues_master WHERE issue_id not in
\*    (SELECT issue_or_project_id FROM issues_repos_summarized)
Unsummarized(master, tbl) == {id \in DOMAIN master : ~HasRow(tbl, id)}

\* get_issues_from_db(): the selection that opens a summarization pass
get_issues_from_db ==
    /\ pass = {}
    /\ \E dbOk \in BOOLEAN :
         IF dbOk
         THEN \E S \in Limited(Unsummarized(issues_master, summarized)) :
                /\ pass' = S
                /\ last' = [op |-> "get_issues_from_db", ret |-> "Ok",
                            rows |-> S]
         ELSE /\ pass' = {}
              /\ last' = [op |-> "get_issues_from_db", ret |-> "Err",
                          rows |-> {}]
    /\ UNCHANGED <<issues_master, repos, summarized, batch>>
    /\ UNCHANGED <<searchVars, walkVars, raceVars, storeVars, drainVars, hookVars>>

\* summarize_issue_add_in_db(pool, issue) for one issue of the pass
summarize_issue_add_in_db ==
    /\ \E id \in pass, gen \in GenOutcomes, dbOk \in BOOLEAN,
          lead \in LeadChars :
         LET r == Summarize(summarized, id, issues_master[id], gen, dbOk)
         IN  /\ summarized' = r.tbl
             /\ pass' = pass \ {id}
             /\ last' = [op |-> "summarize_issue_add_in_db", id |-> id,
                         body |-> issues_master[id], gen |-> gen,
                         sent |-> BodyCharsSent("issue", lead,
                                                issues_master[id]),
                         ret |-> r.ret, prompt |-> r.prompt,
                         calls |-> r.calls, wrote |-> r.wrote]
    /\ UNCHANGED <<issues_master, repos, batch>>
    /\ UNCHANGED <<searchVars, walkVars, raceVars, storeVars, drainVars, hookVars>>

\* summarize_project_add_in_db(pool, repo_data) for one crawled repository
summarize_project_add_in_db ==
    /\ \E id \in DOMAIN repos, gen \in GenOutcomes, dbOk \in BOOLEAN,
          lead \in LeadChars :
         LET r == Summarize(summarized, id, repos[id], gen, dbOk)
         IN  /\ summarized' = r.tbl
             /\ last' = [op |-> "summarize_project_add_in_db", id |-> id,
                         body |-> repos[id], gen |-> gen,
                         sent |-> BodyCharsSent("project", lead, repos[id]),
                         ret |-> r.ret, prompt |-> r.prompt,
                         calls |-> r.calls, wrote |-> r.wrote]
    /\ UNCHANGED <<issues_master, repos, pass, batch>>
    /\ UNCHANGED <<searchVars, walkVars, raceVars, storeVars, drainVars, hookVars>>

(***************************************************************************)
(* The collection: upsert_points replaces the point that has the id, or    *)
(* adds the point.                                                         *)
(***************************************************************************)
\* faulty variant: the payload text is the entity id
PointOf_IdAsText(id, eid, content) ==
    [id |-> id,
     payload |-> [issue_or_project_id |-> eid, text |-> eid]]
\* Point { id: PointId::Num(id), payload: {issue_or_project_id, text} }
PointOf(id, eid, content) ==
    [id |-> id,
     payload |-> [issue_or_project_id |-> eid, text |-> content]]

\* collection_info(..).points_count
points_count(idx) == Len(idx)

\* faulty variant: the point is added whatever its id
upsert_points_AddOnly(idx, p) == Append(idx, p)
upsert_points(idx, p) ==
    IF \E i \in 1..Len(idx) : idx[i].id = p.id
    THEN [i \in 1..Len(idx) |-> IF idx[i].id = p.id THEN p ELSE idx[i]]
    ELSE Append(idx, p)

\* `if let Err(e) = upsert_points(..).await { log::error!(..) }` .. `Ok(())`
UpsertResult(upsertOk) == "Ok"

\* upload_to_collection(issue_or_project_id, content)
upload_to_collection(idx, eid, content, infoOk, embedOk, upsertOk) ==
    IF ~infoOk THEN [index |-> idx, ret |-> "Err", upserted |-> FALSE]
    ELSE LET id == points_count(idx)
         IN  IF ~embedOk
             THEN [index |-> idx, ret |-> "Err", upserted |-> FALSE]
             ELSE [index |-> IF upsertOk
                             THEN upsert_points(idx, PointOf(id, eid, content))
                             ELSE idx,
                   ret |-> UpsertResult(upsertOk),
                   upserted |-> upsertOk]

\* faulty variant: the statement sets no flag
mark_id_indexed_NoFlag(tbl, id, dbOk) == [tbl |-> tbl, ret |-> "Ok"]
\* mark_id_indexed: UPDATE .. SET indexed=1 WHERE issue_or_project_id = ..;
\* a failure of the statement is logged and Ok returned
mark_id_indexed(tbl, id, dbOk) ==
    [tbl |-> IF dbOk /\ HasRow(tbl, id)
             THEN [tbl EXCEPT ![id].indexed = TRUE]
             ELSE tbl,
     ret |-> "Ok"]

\* the number of points of the collection whose payload names the entity
PointsFor(idx, eid) ==
    Cardinality({i \in 1..Len(idx) : idx[i].payload.issue_or_project_id = eid})

NoBatch == [rows |-> {}, left |-> {}, ok |-> TRUE]

\* .. FROM issues_repos_summarized WHERE indexed=0
NotIndexed(tbl) ==
    {<<id, tbl[id].summary>> : id \in {e \in DOMAIN tbl : ~tbl[e].indexed}}

\* get_issues_repos_from_db(): the selection that opens an indexing batch.
\* `ok` notes that every upload_to_collection of the batch has returned Ok.
get_issues_repos_from_db ==
    /\ batch.left = {}
    /\ \E dbOk \in BOOLEAN :
         IF dbOk
         THEN \E S \in Limited(NotIndexed(summarized)) :
                /\ batch' = [rows |-> S, left |-> S, ok |-> TRUE]
                /\ last' = [op |-> "get_issues_repos_from_db", ret |-> "Ok",
                            rows |-> S]
         ELSE /\ batch' = NoBatch
              /\ last' = [op |-> "get_issues_repos_from_db", ret |-> "Err",
                          rows |-> {}]
    /\ UNCHANGED <<issues_master, repos, summarized, pass>>
    /\ UNCHANGED <<searchVars, walkVars, raceVars, storeVars, drainVars, hookVars>>

\* one entry of the indexing batch: upload_to_collection, and
\* mark_id_indexed when the upload returned Ok
index_entry ==
    /\ Len(index) < MaxPoints
    /\ \E row \in batch.left, infoOk \in BOOLEAN, embedOk \in BOOLEAN,
          upsertOk \in BOOLEAN, markOk \in BOOLEAN :
         LET up == upload_to_collection(index, row[1], row[2],
                                        infoOk, embedOk, upsertOk)
             mk == IF up.ret = "Ok"
                   THEN mark_id_indexed(summarized, row[1], markOk)
                   ELSE [tbl |-> summarized, ret |-> "none"]
         IN  /\ index' = up.index
             /\ summarized' = mk.tbl
             /\ batch' = [batch EXCEPT !.left = @ \ {row},
                                       !.ok = @ /\ up.ret = "Ok"]
             /\ last' = [op |-> "upload_to_collection", id |-> row[1],
                         ret |-> up.ret, upserted |-> up.upserted,
                         marked |-> mk.ret]
    /\ UNCHANGED <<issues_master, repos, pass>>
    /\ UNCHANGED <<question, search_results, results, outcome, svc_calls>>
    /\ UNCHANGED <<walkVars, raceVars, storeVars, drainVars, hookVars>>

InitPipe ==
    /\ issues_master = [id \in Issues |-> PlainBody]
    /\ repos = [id \in Projects |-> PlainBody]
    /\ summarized = <<>>
    /\ pass = {}
    /\ batch = NoBatch
    /\ last = [op |-> "none"]
    /\ SearchIdle
    /\ WalkIdle
    /\ RaceIdle
    /\ StoreIdle
    /\ DrainIdle
    /\ HookIdle

NextPipe ==
    \/ get_issues_from_db
    \/ summarize_issue_add_in_db
    \/ summarize_project_add_in_db
    \/ get_issues_repos_from_db
    \/ index_entry

SpecPipe == InitPipe /\ [][NextPipe]_vars

(***************************************************************************)
(* Properties of summarisation and indexing.                               *)
(***************************************************************************)
SummarizeOps == {"summarize_issue_add_in_db", "summarize_project_add_in_db"}

\* the last operation was a summarization
Summarized == last.op \in SummarizeOps

\* the issues that have a raw record and no SummaryRecord
Backlog == {id \in DOMAIN issues_master : id \notin DOMAIN summarized}

\* C13: a selection of Unsummarized candidates returns only issues that have
\* no SummaryRecord row, whatever the indexed flag of the rows that exist,
\* and returns every such issue when they are at most 50.
C13_SelectsExactlyTheRowless ==
    (last.op = "get_issues_from_db" /\ last.ret = "Ok")
    => /\ \A id \in last.rows :
            id \in DOMAIN issues_master /\ id \notin DOMAIN summarized
       /\ Cardinality(Backlog) <= 50 => last.rows = Backlog
       /\ Cardinality(last.rows) <= 50

C13_Witness ==
    /\ last.op = "get_issues_from_db"
    /\ last.ret = "Ok"
    /\ \E id \in DOMAIN issues_master :
         /\ id \in DOMAIN summarized
         /\ ~summarized[id].indexed
         /\ id \notin last.rows

\* C14: a SummaryRecord has indexed=true only if an upsert of a point for
\* the entity succeeded, and the flag stays false when the upsert fails.
C14_IndexedOnlyAfterUpsert ==
    /\ \A id \in DOMAIN summarized :
         summarized[id].indexed => PointsFor(index, id) >= 1
    /\ (last.op = "upload_to_collection" /\ ~last.upserted)
         => ~summarized[last.id].indexed

\* the indexing batch has gone through all its rows
BatchDone == batch.rows # {} /\ batch.left = {}

\* C15: after the indexing batch has run over fewer than 50 records, every
\* upload reporting success, each of them has indexed=true and exactly one
\* point of the collection names it.
C15_BatchIndexesAll ==
    (BatchDone /\ batch.ok /\ Cardinality(batch.rows) < 50)
    => \A r \in batch.rows :
         /\ summarized[r[1]].indexed
         /\ PointsFor(index, r[1]) = 1

\* C17: add_or_update_summary_and_id on an entity that has a record replaces
\* its keyword_tags and leaves its summary and its indexed flag; on an entity
\* without record it creates the record with the given summary and keywords.
C17_UpdateKeywordsOnly ==
    [][(last'.op \in SummarizeOps /\ last'.wrote = "Ok")
       => LET id == last'.id
              given == parse_summary_and_keywords(last'.gen.text)
          IN  /\ id \in DOMAIN summarized'
              /\ summarized'[id].keyword_tags = given.keyword_tags
              /\ IF id \in DOMAIN summarized
                 THEN /\ summarized'[id].summary = summarized[id].summary
                      /\ summarized'[id].indexed = summarized[id].indexed
                 ELSE /\ summarized'[id].summary = given.summary
                      /\ summarized'[id].indexed = FALSE
              /\ \A e \in DOMAIN summarized' \ {id} :
                    e \in DOMAIN summarized /\ summarized'[e] = summarized[e]
      ]_vars

C17_Witness ==
    /\ Summarized
    /\ last.wrote = "Ok"
    /\ last.gen.text = GoodReply
    /\ summarized[last.id].summary = ""
    /\ summarized[last.id].keyword_tags = <<"k">>

\* C18: when the call of the generation service fails, the summarization
\* returns an error after that one call, the table of SummaryRecords is as
\* it was, and an issue without record is still in the backlog.
C18_GenerationFailure ==
    [][(last'.op \in SummarizeOps /\ ~last'.gen.ok)
       => /\ last'.ret = "Err"
          /\ last'.calls = 1
          /\ summarized' = summarized
          /\ last'.op = "summarize_issue_add_in_db"
               => last'.id \in {id \in DOMAIN issues_master' :
                                   id \notin DOMAIN summarized'}
      ]_vars

C18_Witness ==
    /\ last.op = "summarize_issue_add_in_db"
    /\ ~last.gen.ok
    /\ last.ret = "Err"
    /\ last.id \in Backlog

\* the reply is not JSON or lacks the fields summary and keywords
Malformed(text) == ~text.json \/ text.summary = <<>> \/ text.keywords = <<>>

Callers == {1, 2}

\* a collection of n points of other entities, ids 0 .. n-1
Stocked(n) ==
    [i \in 1..n |-> PointOf(i - 1, <<"https:", "", "github.com", "x", Num[i]>>,
                            "s")]

\* `let id = match collection_info(..).await { Ok(ci) => ci.points_count, .. }`
collection_info ==
    /\ \E c \in Callers, infoOk \in BOOLEAN :
         /\ uploads[c].pc = "start"
         /\ uploads' = [uploads EXCEPT ![c] =
                IF infoOk
                THEN [@ EXCEPT !.pc = "counted", !.id = Some(points_count(index))]
                ELSE [@ EXCEPT !.pc = "done", !.ret = "Err"]]
    /\ UNCHANGED index
    /\ UNCHANGED <<question, search_results, results, outcome, svc_calls>>
    /\ UNCHANGED <<walkVars, pipeVars, storeVars, drainVars, hookVars>>

\* `match openai.create_embeddings(input).await`
create_embeddings ==
    /\ \E c \in Callers, embedOk \in BOOLEAN :
         /\ uploads[c].pc = "counted"
         /\ uploads' = [uploads EXCEPT ![c] =
                IF embedOk
                THEN [@ EXCEPT !.pc = "embedded"]
                ELSE [@ EXCEPT !.pc = "done", !.ret = "Err"]]
    /\ UNCHANGED index
    /\ UNCHANGED <<question, search_results, results, outcome, svc_calls>>
    /\ UNCHANGED <<walkVars, pipeVars, storeVars, drainVars, hookVars>>

\* `upsert_points(&collection_name, p).await` and the return that follows;
\* `turn` numbers the upserts that went through
upsert_and_return ==
    /\ \E c \in Callers, upsertOk \in BOOLEAN :
         /\ uploads[c].pc = "embedded"
         /\ index' = IF upsertOk
                     THEN upsert_points(index,
                              PointOf(uploads[c].id[1], uploads[c].eid,
                                      uploads[c].content))
                     ELSE index
         /\ uploads' = [uploads EXCEPT ![c] =
                [@ EXCEPT !.pc = "done", !.ret = UpsertResult(upsertOk),
                          !.turn = IF upsertOk
                                   THEN 1 + Cardinality(
                                          {d \in Callers : uploads[d].turn > 0})
                                   ELSE 0]]
    /\ UNCHANGED <<question, search_results, results, outcome, svc_calls>>
    /\ UNCHANGED <<walkVars, pipeVars, storeVars, drainVars, hookVars>>

InitRace ==
    /\ \E n \in 0..MaxPoints : index = Stocked(n)
    /\ \E e1 \in Issues \cup Projects, e2 \in Issues \cup Projects,
          t1 \in {"s", ""}, t2 \in {"s", ""} :
         uploads = [c \in Callers |->
                      [pc |-> "start",
                       eid |-> IF c = 1 THEN e1 ELSE e2,
                       content |-> IF c = 1 THEN t1 ELSE t2,
                       id |-> None, ret |-> "none", turn |-> 0]]
    /\ question = <<>>
    /\ search_results = <<>>
    /\ results = <<>>
    /\ outcome = "none"
    /\ svc_calls = <<>>
    /\ WalkIdle
    /\ PipeIdle
    /\ StoreIdle
    /\ DrainIdle
    /\ HookIdle

NextRace ==
    \/ collection_info
    \/ create_embeddings
    \/ upsert_and_return

SpecRace == InitRace /\ [][NextRace]_vars

\* both calls are for different entities, have read the same points_count,
\* have upserted and have returned
Collided ==
    /\ uploads[1].eid # uploads[2].eid
    /\ \A c \in Callers : uploads[c].pc = "done" /\ uploads[c].turn > 0
    /\ uploads[1].id = uploads[2].id

\* C16: when two overlapping calls for different entities have read the
\* same points_count and both have upserted, both have returned Ok, the
\* collection has grown by one point only, and that point is the one of the
\* later upsert: the entity of the earlier upsert has no point.
C16_LaterUpsertOverwrites ==
    Collided
    => /\ \A c \in Callers : uploads[c].ret = "Ok"
       /\ Len(index) = uploads[1].id[1] + 1
       /\ \A c \in Callers :
            PointsFor(index, uploads[c].eid)
              = (IF uploads[c].turn = 2 THEN 1 ELSE 0)
       /\ \E i \in 1..Len(index) :
            /\ index[i].id = uploads[1].id[1]
            /\ \E c \in Callers :
                 /\ uploads[c].turn = 2
                 /\ index[i].payload =
                      [issue_or_project_id |-> uploads[c].eid,
                       text |-> uploads[c].content]

C16_Witness ==
    /\ Collided
    /\ \A c \in Callers : uploads[c].ret = "Ok"
    /\ PointsFor(index, uploads[1].eid) + PointsFor(index, uploads[2].eid) = 1
    /\ Len(index) >= 2

(***************************************************************************)
(* The choice of the prompt, over bodies of several lengths in characters  *)
(* and, for each, several lengths in bytes.                                *)
(***************************************************************************)
\* most bytes one character of a body takes
MaxCharWidth == 3

\* lengths in characters
BodyChars == {0, 100, 199, 200, 5000}

Bodies == {Text(c, c * w) : c \in BodyChars, w \in 1..MaxCharWidth}

InitPrompt ==
    /\ \E b \in Bodies :
         /\ issues_master = [id \in Issues |-> b]
         /\ repos = [id \in Projects |-> b]
    /\ summarized = <<>>
    /\ pass = {}
    /\ batch = NoBatch
    /\ last = [op |-> "none"]
    /\ SearchIdle
    /\ WalkIdle
    /\ RaceIdle
    /\ StoreIdle
    /\ DrainIdle
    /\ HookIdle

NextPrompt ==
    \/ get_issues_from_db
    \/ summarize_issue_add_in_db
    \/ summarize_project_add_in_db

SpecPrompt == InitPrompt /\ [][NextPrompt]_vars

\* C20: a body of fewer than 200 characters is summarized with the short
\* prompt and 180 tokens, a body of 200 characters or more with the long
\* prompt and 250 tokens, issue description and readme alike.
C20_PromptByCharacters ==
    Summarized
    => IF last.body.chars < 200
       THEN last.prompt = [variant |-> "short", max_token |-> 180]
       ELSE last.prompt = [variant |-> "long", max_token |-> 250]

\* C21: in the long-input strategy the generation service receives the
\* first min(L, 4000) characters of a body of L characters, whatever the
\* length of the text placed before the body.
C21_BodyCutAt4000 ==
    (Summarized /\ last.prompt.variant = "long")
    => last.sent = Min(last.body.chars, 4000)

(***************************************************************************)
(* The entity store of db_populate.rs.                                     *)
(*                                                                         *)
(* Every function first takes a connection (`pool.get_conn().await?`) and *)
(* then runs one statement.  A call goes through, or fails at `at` with an *)
(* error of the driver: an error of the server carries the server's error  *)
(* number `code` and its SQLSTATE `state` (a duplicate entry is number     *)
(* 1062, SQLSTATE 23000), an error of the connection carries neither.      *)
(***************************************************************************)
StmtOk == [kind |-> "ok", at |-> "", code |-> 0, state |-> ""]
DuplicateEntry ==
    [kind |-> "Server", at |-> "exec", code |-> 1062, state |-> "23000"]
IoFailure == [kind |-> "Io", at |-> "exec", code |-> 0, state |-> ""]
ConnFailure == [kind |-> "Io", at |-> "get_conn", code |-> 0, state |-> ""]

StmtOutcomes == {StmtOk, DuplicateEntry, IoFailure, ConnFailure}

\* Result values
OkUnit == [tag |-> "Ok", value |-> "()", msg |-> ""]
OkBool(b) ==
    [tag |-> "Ok", value |-> IF b THEN "true" ELSE "false", msg |-> ""]
ErrOf(msg) == [tag |-> "Err", value |-> "anyhow::Error", msg |-> msg]

StoreProject == ProjectUrl(1)
StoreIssue == IssueUrl(1)
StorePull == <<"https:", "", "github.com", "o", "r", "pull", "1">>

\* the RepoData values the crawl hands to fill_project_w_repo_data
RepoDatas ==
    [project_id : {StoreProject}, project_logo : {"", "logo"},
     main_language : {"rust"}, repo_stars : {5},
     repo_description : {"", "d"}, repo_readme : {"", "r"}]

\* the comments handed to add_issues_comment
Comments ==
    [issue_id : {StoreIssue}, comment_date : {"t1"},
     comment_creator : {"u"}, comment_body : {"x", "y"}]

\* faulty variant: an id that is not stored gives Ok(false)
Exists_OkFalse(ids, id, what, out) ==
    IF out.kind # "ok" THEN ErrOf("store")
    ELSE IF id \in ids THEN OkBool(TRUE) ELSE OkBool(FALSE)
\* project_exists / issue_exists / pull_request_exists: `query_first(..)
\* .await?`, then Some(_) => Ok(true), None => Err(msg("<what> not found"))
Exists(ids, id, what, out) ==
    IF out.kind # "ok" THEN ErrOf("store")
    ELSE IF id \in ids THEN OkBool(TRUE) ELSE ErrOf(what)

\* the description fill_project_w_repo_data writes; the first 1000
\* characters of a readme of the model are the readme
ProjectDescription(rd) ==
    IF rd.repo_description # "" THEN rd.repo_description
    ELSE IF rd.repo_readme # "" THEN rd.repo_readme
    ELSE "No description available"

IncomingRow(rd) ==
    [project_logo |-> rd.project_logo, main_language |-> rd.main_language,
     repo_stars |-> rd.repo_stars,
     project_description |-> ProjectDescription(rd)]

\* INSERT INTO projects (..) VALUES (..) ON DUPLICATE KEY UPDATE
\* project_logo = VALUES(project_logo), main_language = VALUES(..),
\* repo_stars = VALUES(..), project_description = VALUES(..)
UpsertProject(tbl, rd) ==
    [id \in DOMAIN tbl \cup {rd.project_id} |->
        IF id = rd.project_id THEN IncomingRow(rd) ELSE tbl[id]]

SamePair(a, b) ==
    a.issue_id = b.issue_id /\ a.comment_date = b.comment_date

\* INSERT INTO issues_comment (..) SELECT .. FROM dual WHERE NOT EXISTS
\* (SELECT 1 FROM issues_comment WHERE issue_id = .. AND comment_date = ..)
InsertComment(tbl, c) ==
    IF \E i \in 1..Len(tbl) : SamePair(tbl[i], c) THEN tbl ELSE Append(tbl, c)

\* add_issues_comment after exec_drop: `if server_error.code == 23000
\* { return Ok(()) }`, else `return Err(e.into())`
CommentResult(out) ==
    IF out.kind = "ok" THEN OkUnit
    ELSE IF out.at = "get_conn" THEN ErrOf("store")
    ELSE IF out.kind = "Server" /\ out.code = 23000 THEN OkUnit
    ELSE ErrOf("store")

\* faulty variant: the failure of the statement is returned
Swallowed_Returned(out) ==
    IF out.kind = "ok" THEN OkUnit ELSE ErrOf("store")
\* `let mut conn = pool.get_conn().await?;` and then
\* `if let Err(e) = conn.exec_drop(..).await { log::error!(..) }; Ok(())`
Swallowed(out) == IF out.at = "get_conn" THEN ErrOf("store") ELSE OkUnit

project_exists ==
    /\ \E out \in StmtOutcomes :
         sret' = [op |-> "project_exists", arg |-> StoreProject, out |-> out,
                  ret |-> Exists(DOMAIN store.projects, StoreProject,
                                 "Project not found", out)]
    /\ UNCHANGED <<store, writers>>
    /\ UNCHANGED <<searchVars, walkVars, pipeVars, raceVars, drainVars, hookVars>>

issue_exists ==
    /\ \E out \in StmtOutcomes :
         sret' = [op |-> "issue_exists", arg |-> StoreIssue, out |-> out,
                  ret |-> Exists(store.issues, StoreIssue,
                                 "Issue not found", out)]
    /\ UNCHANGED <<store, writers>>
    /\ UNCHANGED <<searchVars, walkVars, pipeVars, raceVars, drainVars, hookVars>>

pull_request_exists ==
    /\ \E out \in StmtOutcomes :
         sret' = [op |-> "pull_request_exists", arg |-> StorePull, out |-> out,
                  ret |-> Exists(store.pull_requests, StorePull,
                                 "Pull request not found", out)]
    /\ UNCHANGED <<store, writers>>
    /\ UNCHANGED <<searchVars, walkVars, pipeVars, raceVars, drainVars, hookVars>>

fill_project_w_repo_data ==
    /\ \E rd \in RepoDatas, out \in StmtOutcomes :
         /\ store' = IF out.kind = "ok"
                     THEN [store EXCEPT !.projects = UpsertProject(@, rd)]
                     ELSE store
         /\ sret' = [op |-> "fill_project_w_repo_data", arg |-> rd,
                     out |-> out, ret |-> Swallowed(out)]
    /\ UNCHANGED writers
    /\ UNCHANGED <<searchVars, walkVars, pipeVars, raceVars, drainVars, hookVars>>

\* The server reports a duplicate entry for the pair when the pair is
\* stored at the time of the insert: by then the table holds a row of the
\* pair, this one or that of the writer that came first.
add_issues_comment ==
    /\ \E c \in Comments, out \in StmtOutcomes :
         /\ \E winner \in {w \in Comments : SamePair(w, c)} :
              store' = IF out.kind = "ok"
                       THEN [store EXCEPT
                                !.issues_comment = InsertComment(@, c)]
                       ELSE IF out = DuplicateEntry
                       THEN [store EXCEPT
                                !.issues_comment = InsertComment(@, winner)]
                       ELSE store
         /\ sret' = [op |-> "add_issues_comment", arg |-> c, out |-> out,
                     ret |-> CommentResult(out)]
    /\ UNCHANGED writers
    /\ UNCHANGED <<searchVars, walkVars, pipeVars, raceVars, drainVars, hookVars>>

\* a plain INSERT of one row, its failure logged or dropped
PlainInsert(op, table, id, out) ==
    /\ store' = IF out.kind = "ok"
                THEN [store EXCEPT ![table] = @ \cup {id}]
                ELSE store
    /\ sret' = [op |-> op, arg |-> id, out |-> out, ret |-> Swallowed(out)]
    /\ UNCHANGED writers
    /\ UNCHANGED <<searchVars, walkVars, pipeVars, raceVars, drainVars, hookVars>>

add_issues_open ==
    /\ \E out \in StmtOutcomes :
         PlainInsert("add_issues_open", "issues_open", StoreIssue, out)

add_issues_closed ==
    /\ \E out \in StmtOutcomes :
         PlainInsert("add_issues_closed", "issues_closed", StoreIssue, out)

add_issues_assigned ==
    /\ \E out \in StmtOutcomes :
         PlainInsert("add_issues_assigned", "issues_assigned", StoreIssue, out)

add_pull_request ==
    /\ \E out \in StmtOutcomes :
         PlainInsert("add_pull_request", "pull_requests", StorePull, out)

\* the Result of a function of the summary table: that of its statement,
\* or the error of `pool.get_conn().await?`
Lift(out, ret) ==
    IF out.at = "get_conn" \/ ret = "Err" THEN ErrOf("store") ELSE OkUnit

\* a call of mark_id_indexed(pool, id) on the table of SummaryRecords
call_mark_id_indexed ==
    /\ \E out \in StmtOutcomes :
         LET r == mark_id_indexed(summarized, StoreIssue, out.kind = "ok")
         IN  /\ summarized' = r.tbl
             /\ sret' = [op |-> "mark_id_indexed", arg |-> StoreIssue,
                         out |-> out, ret |-> Lift(out, r.ret)]
    /\ UNCHANGED <<store, writers>>
    /\ UNCHANGED <<issues_master, repos, pass, batch, last>>
    /\ UNCHANGED <<searchVars, walkVars, raceVars, drainVars, hookVars>>

\* a call of add_or_update_summary_and_id(pool, id, summary, keyword_tags)
call_add_or_update_summary_and_id ==
    /\ \E out \in StmtOutcomes :
         LET r == add_or_update_summary_and_id(summarized, StoreIssue, "s",
                                               <<"k">>, out.kind = "ok")
         IN  /\ summarized' = r.tbl
             /\ sret' = [op |-> "add_or_update_summary_and_id",
                         arg |-> StoreIssue, out |-> out,
                         ret |-> Lift(out, r.ret)]
    /\ UNCHANGED <<store, writers>>
    /\ UNCHANGED <<issues_master, repos, pass, batch, last>>
    /\ UNCHANGED <<searchVars, walkVars, raceVars, drainVars, hookVars>>

EmptyStore ==
    [projects |-> <<>>, issues |-> {}, pull_requests |-> {},
     issues_comment |-> <<>>, issues_open |-> {}, issues_closed |-> {},
     issues_assigned |-> {}]

InitStore ==
    /\ \E stored \in SUBSET {StoreIssue} :
         store = [EmptyStore EXCEPT !.issues = stored]
    /\ sret = [op |-> "none"]
    /\ writers = <<>>
    /\ SearchIdle
    /\ WalkIdle
    /\ PipeIdle
    /\ RaceIdle
    /\ DrainIdle
    /\ HookIdle

NextStore ==
    \/ project_exists
    \/ issue_exists
    \/ pull_request_exists
    \/ fill_project_w_repo_data
    \/ add_issues_comment
    \/ add_issues_open
    \/ add_issues_closed
    \/ add_issues_assigned
    \/ add_pull_request
    \/ call_mark_id_indexed
    \/ call_add_or_update_summary_and_id

SpecStore == InitStore /\ [][NextStore]_vars

(***************************************************************************)
(* Claims about the entity store                                           *)
(***************************************************************************)
ExistsOps == {"project_exists", "issue_exists", "pull_request_exists"}

\* the ids the table read by the last existence check holds
IdsRead ==
    IF sret.op = "project_exists" THEN DOMAIN store.projects
    ELSE IF sret.op = "issue_exists" THEN store.issues
    ELSE store.pull_requests

\* C22: an existence check whose query went through returns Ok(true) for
\* a stored id and an error for an id that is not stored; no existence
\* check returns Ok(false), and the error for a missing id has the same
\* kind as the error for a failed query.
C22_ExistsNeverOkFalse ==
    sret.op \in ExistsOps =>
        /\ sret.ret # OkBool(FALSE)
        /\ (sret.out.kind = "ok" /\ sret.arg \in IdsRead)
               => sret.ret = OkBool(TRUE)
        /\ sret.arg \notin IdsRead => sret.ret.tag = "Err"
        /\ sret.ret.tag = "Err" => sret.ret.value = ErrOf("store").value

C22_Witness ==
    /\ sret.op \in ExistsOps
    /\ sret.out.kind = "ok"
    /\ sret.arg \notin IdsRead
    /\ sret.ret.tag = "Err"
    /\ sret.ret.msg # "store"

\* the write went through on a project that was already stored
UpsertOnStored ==
    /\ sret'.op = "fill_project_w_repo_data"
    /\ sret'.out.kind = "ok"
    /\ sret'.arg.project_id \in DOMAIN store.projects

\* the stored row merged with an incoming write: a non-empty incoming field
\* replaces the stored one, an empty incoming field leaves it
MergedRow(row, rd) ==
    [project_logo |-> IF rd.project_logo # "" THEN rd.project_logo
                      ELSE row.project_logo,
     main_language |-> IF rd.main_language # "" THEN rd.main_language
                       ELSE row.main_language,
     repo_stars |-> rd.repo_stars,
     project_description |->
         IF rd.repo_description # "" THEN rd.repo_description
         ELSE IF rd.repo_readme # "" THEN rd.repo_readme
         ELSE row.project_description]

\* C23: upserting a project whose id is already stored keeps the one row of
\* that id and merges: every non-empty incoming field replaces the stored
\* field, every empty incoming field leaves the stored value in place.
C23_UpsertMerges ==
    [][UpsertOnStored =>
          /\ DOMAIN store'.projects = DOMAIN store.projects
          /\ store'.projects[sret'.arg.project_id]
                = MergedRow(store.projects[sret'.arg.project_id], sret'.arg)]_vars

PairStored(tbl, c) == \E i \in 1..Len(tbl) : SamePair(tbl[i], c)

OneRowPerPair(tbl) ==
    \A i, j \in 1..Len(tbl) : SamePair(tbl[i], tbl[j]) => i = j

\* the comment insert met a pair that is already stored: its existence
\* check found the row, or the server reported the duplicate key
MetStoredPair ==
    /\ sret'.op = "add_issues_comment"
    /\ \/ sret'.out.kind = "ok" /\ PairStored(store.issues_comment, sret'.arg)
       \/ sret'.out = DuplicateEntry

\* C24: a comment insert that meets an already stored (issue_id,
\* comment_date) pair returns Ok and adds no row of the pair, also when the
\* server reports a duplicate-key violation; the table holds one row per
\* pair.
C24_DuplicateCommentIgnored ==
    [][MetStoredPair =>
          /\ sret'.ret = OkUnit
          /\ PairStored(store.issues_comment, sret'.arg)
                => store'.issues_comment = store.issues_comment
          /\ OneRowPerPair(store'.issues_comment)]_vars

SwallowingOps ==
    {"fill_project_w_repo_data", "add_issues_open", "add_issues_closed",
     "add_issues_assigned", "add_pull_request", "mark_id_indexed"}

StoreOps ==
    SwallowingOps \cup ExistsOps
        \cup {"add_issues_comment", "add_or_update_summary_and_id"}

\* the last call took its connection and its statement failed
StatementFailed ==
    /\ sret.op \in StoreOps
    /\ sret.out.kind # "ok"
    /\ sret.out.at = "exec"

\* C26: when the write statement fails, the project fill, the inserts of
\* open, closed and assigned issues and of pull requests and the marking
\* as indexed return Ok; the summary write returns the error, and so does
\* the comment insert for a failure that is not a duplicate-key violation.
C26_FailuresSwallowed ==
    StatementFailed =>
        /\ sret.op \in SwallowingOps => sret.ret = OkUnit
        /\ sret.op = "add_or_update_summary_and_id" => sret.ret.tag = "Err"
        /\ (sret.op = "add_issues_comment" /\ sret.out # DuplicateEntry)
               => sret.ret.tag = "Err"

C26_Witness ==
    /\ StatementFailed
    /\ sret.op = "add_issues_closed"
    /\ sret.out = IoFailure
    /\ sret.ret = OkUnit
    /\ store.issues_closed = {}

(***************************************************************************)
(* Two concurrent writers of the same key.                                 *)
(*                                                                         *)
(* Both run fill_project_w_repo_data on one project, or both run           *)
(* add_issues_comment on one (issue_id, comment_date) pair.  The project   *)
(* upsert is one statement on the primary key of the row, which the server *)
(* serializes.  The comment insert reads the table (`WHERE NOT EXISTS`)    *)
(* and then inserts: the read of one writer can come before the insert of  *)
(* the other has become visible.  Whether issues_comment has a unique key  *)
(* on the pair is a property of the schema, which the source does not      *)
(* hold: both schemas are initial states.                                  *)
(***************************************************************************)
Jobs == {"project", "comment"}

ArgsOf(job) == IF job = "project" THEN RepoDatas ELSE Comments

Writer(job, arg) ==
    [job |-> job, arg |-> arg, pc |-> "start", saw |-> FALSE, ret |-> OkUnit]

\* fill_project_w_repo_data of one writer: the upsert statement
writer_fill_project ==
    /\ \E w \in Callers :
         /\ writers.of[w].job = "project"
         /\ writers.of[w].pc = "start"
         /\ store' = [store EXCEPT
                         !.projects = UpsertProject(@, writers.of[w].arg)]
         /\ writers' = [writers EXCEPT !.of[w].pc = "done",
                                       !.of[w].ret = Swallowed(StmtOk)]
    /\ UNCHANGED sret
    /\ UNCHANGED <<searchVars, walkVars, pipeVars, raceVars, drainVars, hookVars>>

\* add_issues_comment of one writer: the read of `WHERE NOT EXISTS (..)`
writer_comment_check ==
    /\ \E w \in Callers :
         /\ writers.of[w].job = "comment"
         /\ writers.of[w].pc = "start"
         /\ writers' = [writers EXCEPT
                           !.of[w].pc = "checked",
                           !.of[w].saw = \E i \in 1..Len(store.issues_comment) :
                               SamePair(store.issues_comment[i],
                                        writers.of[w].arg)]
    /\ UNCHANGED <<store, sret>>
    /\ UNCHANGED <<searchVars, walkVars, pipeVars, raceVars, drainVars, hookVars>>

\* the outcome of the insert of a row the read did not find
InsertOutcome(tbl, c, unique) ==
    IF unique /\ \E i \in 1..Len(tbl) : SamePair(tbl[i], c)
    THEN DuplicateEntry
    ELSE StmtOk

\* add_issues_comment of one writer: the insert, and the Result
writer_comment_insert ==
    /\ \E w \in Callers :
         LET me == writers.of[w]
             out == InsertOutcome(store.issues_comment, me.arg, writers.unique)
         IN  /\ me.job = "comment"
             /\ me.pc = "checked"
             /\ store' = IF ~me.saw /\ out.kind = "ok"
                         THEN [store EXCEPT
                                  !.issues_comment = Append(@, me.arg)]
                         ELSE store
             /\ writers' = [writers EXCEPT
                               !.of[w].pc = "done",
                               !.of[w].ret = IF me.saw THEN OkUnit
                                             ELSE CommentResult(out)]
    /\ UNCHANGED sret
    /\ UNCHANGED <<searchVars, walkVars, pipeVars, raceVars, drainVars, hookVars>>

InitWriters ==
    /\ store = EmptyStore
    /\ sret = [op |-> "none"]
    /\ \E job \in Jobs, unique \in BOOLEAN :
         \E args \in [Callers -> ArgsOf(job)] :
             writers = [unique |-> unique,
                        of |-> [w \in Callers |-> Writer(job, args[w])]]
    /\ SearchIdle
    /\ WalkIdle
    /\ PipeIdle
    /\ RaceIdle
    /\ DrainIdle
    /\ HookIdle

NextWriters ==
    \/ writer_fill_project
    \/ writer_comment_check
    \/ writer_comment_insert

SpecWriters == InitWriters /\ [][NextWriters]_vars

WritersDone == \A w \in Callers : writers.of[w].pc = "done"

\* the table of the key after the two writes in the order first, second
Sequential(first, second) ==
    IF first.job = "project"
    THEN UpsertProject(UpsertProject(<<>>, first.arg), second.arg)
    ELSE InsertComment(InsertComment(<<>>, first.arg), second.arg)

TableOf(job) ==
    IF job = "project" THEN store.projects ELSE store.issues_comment

\* C25: when two concurrent writers of the same project or of the same
\* comment are done, the store holds one row of the key, the row is that of
\* one of the two sequential orders, and neither writer returned an error.
C25_WritersConverge ==
    (writers # <<>> /\ WritersDone) =>
        /\ \E u, v \in Callers :
              /\ u # v
              /\ TableOf(writers.of[u].job)
                    = Sequential(writers.of[u], writers.of[v])
        /\ \A w \in Callers : writers.of[w].ret.tag = "Ok"

(***************************************************************************)
(* Claims about repeated cycles of the pipeline                            *)
(***************************************************************************)
\* the step is a summarization that called the generation service
Generates ==
    /\ last'.op \in SummarizeOps
    /\ last'.calls > 0

\* C27: the generation service is not called to summarize an entity that
\* already has a SummaryRecord.
C27_AtMostOnce ==
    [][Generates => ~HasRow(summarized, last'.id)]_vars

(***************************************************************************)
(* The two selections on backlogs of up to more than one batch: the raw    *)
(* records 1..unsummarized have no SummaryRecord, the records after them   *)
(* have one that is not indexed, and the last record has one that is.      *)
(***************************************************************************)
MaxBacklog == 51

\* sizes of <<backlog of summarization, backlog of indexing>>
Backlogs ==
    {<<0, 0>>, <<1, 1>>, <<SelectLimit, SelectLimit>>,
     <<MaxBacklog, 1>>, <<1, MaxBacklog>>}

\* https://github.com/o/r/issues/<k>, the number standing for its digits
BacklogUrl(k) == <<"https:", "", "github.com", "o", "r", "issues", k>>

BacklogIds(from, to) == {BacklogUrl(k) : k \in from..to}

BacklogTable(unsummarized, unindexed) ==
    [id \in BacklogIds(unsummarized + 1, unsummarized + unindexed + 1)
        |-> [summary |-> "s", keyword_tags |-> <<"k">>,
             indexed |-> id = BacklogUrl(unsummarized + unindexed + 1)]]

InitBacklog ==
    /\ \E b \in Backlogs :
         /\ issues_master =
               [id \in BacklogIds(1, b[1] + b[2] + 1) |-> PlainBody]
         /\ summarized = BacklogTable(b[1], b[2])
    /\ repos = <<>>
    /\ pass = {}
    /\ batch = NoBatch
    /\ last = [op |-> "none"]
    /\ SearchIdle
    /\ WalkIdle
    /\ RaceIdle
    /\ StoreIdle
    /\ DrainIdle
    /\ HookIdle

NextBacklog ==
    \/ get_issues_from_db
    \/ get_issues_repos_from_db

SpecBacklog == InitBacklog /\ [][NextBacklog]_vars

\* C28: a selection of unsummarized candidates returns at most 50 entities;
\* a selection of the indexing reader returns at most 50 records, each of
\* them not indexed; whatever the size of the backlog.
C28_AtMostFifty ==
    /\ (last.op = "get_issues_from_db" /\ last.ret = "Ok")
           => Cardinality(last.rows) <= 50
    /\ (last.op = "get_issues_repos_from_db" /\ last.ret = "Ok")
           => /\ Cardinality(last.rows) <= 50
              /\ \A row \in last.rows :
                    /\ row[1] \in DOMAIN summarized
                    /\ ~summarized[row[1]].indexed

C28_Witness ==
    /\ last.op = "get_issues_repos_from_db"
    /\ last.ret = "Ok"
    /\ Cardinality({id \in DOMAIN summarized : ~summarized[id].indexed}) > 50
    /\ Cardinality(last.rows) = 50
    /\ \E id \in DOMAIN summarized : summarized[id].indexed

(***************************************************************************)
(* Repeated passes over a backlog.                                         *)
(*                                                                         *)
(* A summarization pass is get_issues_from_db and then                     *)
(* summarize_issue_add_in_db for every selected issue; a crawl cycle       *)
(* summarizes every crawled repository; an indexing pass is                *)
(* get_issues_repos_from_db and then upload_to_collection and, where it    *)
(* returned Ok, mark_id_indexed for every selected record.  The entities   *)
(* of a kind that are in the same state are alike to the passes, so the    *)
(* state is the number of entities in each state: without SummaryRecord    *)
(* (`raw`), with a SummaryRecord whose flag is not set (`summarized`),     *)
(* with a SummaryRecord whose flag is set (`indexed`).  A pass is one      *)
(* step; in a pass the services work for k of the selected entities, with  *)
(* the outcome the step names, and fail for the others.                    *)
(***************************************************************************)
DrainSizes == {1, SelectLimit + 1}

Counts(raw, withRow, flagged) ==
    [raw |-> raw, summarized |-> withRow, indexed |-> flagged]

Rep == BacklogUrl(1)

RepRow == [summary |-> "s", keyword_tags |-> <<"k">>, indexed |-> FALSE]

\* the summarization of an entity leaves the entity with a SummaryRecord
RowWritten(gen, dbOk) ==
    HasRow(Summarize(<<>>, Rep, PlainBody, gen, dbOk).tbl, Rep)

\* the indexing of a record leaves the record with its flag set
FlagSet(infoOk, embedOk, upsertOk, markOk) ==
    LET up == upload_to_collection(<<>>, Rep, RepRow.summary,
                                   infoOk, embedOk, upsertOk)
        tbl == [id \in {Rep} |-> RepRow]
    IN  /\ up.ret = "Ok"
        /\ mark_id_indexed(tbl, Rep, markOk).tbl[Rep].indexed

\* how many rows a selection returns of `matching` rows: `limit 50`
Selected(matching) == Min(matching, SelectLimit)

\* k of the raw entities get a SummaryRecord
Advance(c, k) == [c EXCEPT !.raw = @ - k, !.summarized = @ + k]

\* k of the records that are not indexed get their flag
Flag(c, k) == [c EXCEPT !.summarized = @ - k, !.indexed = @ + k]

summarization_pass_with(selOk, gen, dbOk) ==
    /\ IF selOk /\ RowWritten(gen, dbOk) /\ Selected(drain.issues.raw) > 0
       THEN \E k \in 1..Selected(drain.issues.raw) :
              drain' = [drain EXCEPT !.issues = Advance(@, k)]
       ELSE drain' = drain
    /\ UNCHANGED <<searchVars, walkVars, pipeVars, raceVars, storeVars, hookVars>>

summarization_pass ==
    /\ \E selOk \in BOOLEAN, gen \in GenOutcomes, dbOk \in BOOLEAN :
         summarization_pass_with(selOk, gen, dbOk)

\* a summarization pass in which the store and the generation service work
summarization_pass_succeeds ==
    /\ \E gen \in {g \in GenOutcomes : g.ok} :
         summarization_pass_with(TRUE, gen, TRUE)

\* trigger: every crawled repository is summarized, with or without record
crawl_cycle_with(gen, dbOk) ==
    /\ IF RowWritten(gen, dbOk) /\ drain.projects.raw > 0
       THEN \E k \in 1..drain.projects.raw :
              drain' = [drain EXCEPT !.projects = Advance(@, k)]
       ELSE drain' = drain
    /\ UNCHANGED <<searchVars, walkVars, pipeVars, raceVars, storeVars, hookVars>>

crawl_cycle ==
    /\ \E gen \in GenOutcomes, dbOk \in BOOLEAN : crawl_cycle_with(gen, dbOk)

\* a crawl cycle in which the store and the generation service work
crawl_cycle_succeeds ==
    /\ \E gen \in {g \in GenOutcomes : g.ok} : crawl_cycle_with(gen, TRUE)

\* The selection returns up to 50 of the records that are not indexed, of
\* issues and of projects; the indexing works for ki and kp of them.
indexing_pass_with(selOk, infoOk, embedOk, upsertOk, markOk) ==
    /\ IF /\ selOk
          /\ FlagSet(infoOk, embedOk, upsertOk, markOk)
          /\ drain.issues.summarized + drain.projects.summarized > 0
       THEN \E si \in 0..drain.issues.summarized,
               sp \in 0..drain.projects.summarized :
              /\ si + sp = Selected(drain.issues.summarized
                                    + drain.projects.summarized)
              /\ \E ki \in 0..si, kp \in 0..sp :
                   /\ ki + kp > 0
                   /\ drain' = [drain EXCEPT !.issues = Flag(@, ki),
                                             !.projects = Flag(@, kp)]
       ELSE drain' = drain
    /\ UNCHANGED <<searchVars, walkVars, pipeVars, raceVars, storeVars, hookVars>>

indexing_pass ==
    /\ \E selOk \in BOOLEAN, infoOk \in BOOLEAN, embedOk \in BOOLEAN,
          upsertOk \in BOOLEAN, markOk \in BOOLEAN :
         indexing_pass_with(selOk, infoOk, embedOk, upsertOk, markOk)

\* an indexing pass in which the store and the vector index work
indexing_pass_succeeds == indexing_pass_with(TRUE, TRUE, TRUE, TRUE, TRUE)

InitDrain ==
    /\ \E n \in DrainSizes :
         drain = [issues |-> Counts(n, 0, 0),
                  projects |-> Counts(Cardinality(Projects), 0, 0)]
    /\ SearchIdle
    /\ WalkIdle
    /\ PipeIdle
    /\ RaceIdle
    /\ StoreIdle
    /\ HookIdle

NextDrain ==
    \/ summarization_pass
    \/ crawl_cycle
    \/ indexing_pass

\* the passes are invoked again and again, and the services work in the end
DrainFairness ==
    /\ WF_vars(summarization_pass_succeeds)
    /\ WF_vars(crawl_cycle_succeeds)
    /\ WF_vars(indexing_pass_succeeds)

SpecDrain == InitDrain /\ [][NextDrain]_vars /\ DrainFairness

Drained ==
    /\ drain.issues.raw = 0
    /\ drain.issues.summarized = 0
    /\ drain.projects.raw = 0
    /\ drain.projects.summarized = 0

\* C29: with passes that are invoked again and again and services that work
\* in the end, every entity eventually has a SummaryRecord whose indexed
\* flag is set, also for a backlog of more than 50 entities.
C29_BacklogDrains == <>Drained

C29_Witness ==
    /\ drain # <<>>
    /\ Drained
    /\ drain.issues.indexed > 50
    /\ drain.projects.indexed > 0

(***************************************************************************)
(* search_collection: the simple search                                    *)
(***************************************************************************)
\* most points in the collection of the simple search
MaxSimplePts == 6

\* PointsSearchParams { limit: 5 }
SimpleLimit == 5

\* faulty variant: the threshold itself passes
SimplePasses_AtLeast(score) == score >= 79
\* if p.score > 0.79
SimplePasses(score) == score > 79

\* the loop over the points search_points returned: out.push((id, text))
SimpleResults(sr) ==
    LET kept == SelectSeq(sr, LAMBDA p : SimplePasses(p.score))
    IN  [i \in 1..Len(kept) |->
            <<kept[i].payload.issue_or_project_id, kept[i].payload.text>>]

SimpleQuestions ==
    {<<"open", "issue", "about", "crash">>, <<"Project", "roadmap">>}

\* one call of search_collection(question, collection_name)
search_collection ==
    /\ outcome = "none"
    /\ \E q \in SimpleQuestions, e \in Embeddings, searchOk \in BOOLEAN :
         /\ question' = q
         /\ IF ~Embedded(e)
            THEN \* Ok(r) with r.len() < 1, or Err(_e): return Err(..)
                 /\ outcome' = "err"
                 /\ svc_calls' = <<Called("search_collection", "create_embeddings", e)>>
                 /\ search_results' = <<>>
                 /\ results' = <<>>
            ELSE IF ~searchOk
            THEN \* Err(e) => log::error!(..), then Ok(out) with out empty
                 /\ outcome' = OnSearchError("search_collection")
                 /\ svc_calls' = <<Called("search_collection", "create_embeddings", e),
                                   Called("search_collection", "search_points", "error")>>
                 /\ search_results' = <<>>
                 /\ results' = <<>>
            ELSE \E sr \in search_points(index, SimpleLimit) :
                 /\ search_results' = sr
                 /\ results' = SimpleResults(sr)
                 /\ svc_calls' = <<Called("search_collection", "create_embeddings", e),
                                   Called("search_collection", "search_points", "points")>>
                 /\ outcome' = "ok"
    /\ UNCHANGED index
    /\ UNCHANGED walkVars
    /\ UNCHANGED <<pipeVars, raceVars, storeVars, drainVars, hookVars>>

\* a collection of n points: issues at the odd places, projects at the even
SimpleCollection(sc) ==
    [i \in 1..Len(sc) |->
        Point(i - 1, IF i % 2 = 1 THEN IssueUrl(i) ELSE ProjectUrl(i), sc[i])]

InitSimple ==
    /\ \E n \in 0..MaxSimplePts :
         \E sc \in [1..n -> Range(RankScores)] : index = SimpleCollection(sc)
    /\ question = <<>>
    /\ search_results = <<>>
    /\ results = <<>>
    /\ outcome = "none"
    /\ svc_calls = <<>>
    /\ WalkIdle
    /\ PipeIdle
    /\ RaceIdle
    /\ StoreIdle
    /\ DrainIdle
    /\ HookIdle

NextSimple == search_collection

SpecSimple == InitSimple /\ [][NextSimple]_vars

\* the points of the collection that were not retrieved
NotRetrieved ==
    {i \in 1..Len(index) : \A j \in 1..Len(search_results) :
                              search_results[j].id # index[i].id}

\* C30: a simple search whose neighbour search went through retrieves the 5
\* highest-scoring points (all points of a smaller collection) and returns,
\* in the order of retrieval, the pairs of exactly the retrieved points
\* that score strictly above 0.79, whatever words the question has.
C30_SimpleSearch ==
    Searched =>
      /\ Len(search_results) = Min(5, Len(index))
      /\ \A i \in NotRetrieved, j \in 1..Len(search_results) :
            index[i].score <= search_results[j].score
      /\ Descending(ScoresOfPoints(search_results))
      /\ Len(results) <= 5
      /\ LET above == SelectSeq(search_results, LAMBDA p : p.score > 79)
         IN  /\ Len(results) = Len(above)
             /\ \A i \in 1..Len(above) : results[i] = Pair(above[i])

C30_Witness ==
    /\ Searched
    /\ Len(index) > 5
    /\ is_issue(question)
    /\ \E p \in Range(search_results) : p.score = 79
    /\ \E i \in 1..Len(results) : Len(results[i][1]) = 5

(***************************************************************************)
(* Both retrieval modes over one collection.  The ids of its points have   *)
(* 5, 6, 7 and 8 segments: a repository URL, the URL of a repository's     *)
(* issue list, an issue URL, and an issue URL with a trailing '/'.         *)
(***************************************************************************)
\* https://github.com/o/<k>/issues
IssueListUrl(k) == <<"https:", "", "github.com", "o", Num[k], "issues">>
\* https://github.com/o/r/issues/<k>/
TrailingSlashUrl(k) == IssueUrl(k) \o <<"">>

ShapedUrl(i) ==
    CASE i % 4 = 1 -> IssueListUrl(i)
      [] i % 4 = 2 -> IssueUrl(i)
      [] i % 4 = 3 -> TrailingSlashUrl(i)
      [] OTHER -> ProjectUrl(i)

QueryCollection(sc) == [i \in 1..Len(sc) |-> Point(i - 1, ShapedUrl(i), sc[i])]

InitQuery ==
    /\ \E n \in 0..MaxSimplePts :
         \E sc \in [1..n -> Range(ScoresDesc)] : index = QueryCollection(sc)
    /\ question = <<>>
    /\ search_results = <<>>
    /\ results = <<>>
    /\ outcome = "none"
    /\ svc_calls = <<>>
    /\ WalkIdle
    /\ PipeIdle
    /\ RaceIdle
    /\ StoreIdle
    /\ DrainIdle
    /\ HookIdle

NextQuery ==
    \/ search_collection_hybrid
    \/ search_collection

SpecQuery == InitQuery /\ [][NextQuery]_vars

\* the last search was a call of fn
SearchBy(fn) == svc_calls # <<>> /\ svc_calls[1].by = fn

\* the last search asked for an embedding and got no vector
EmbeddingFailed ==
    /\ svc_calls # <<>>
    /\ svc_calls[1].svc = "create_embeddings"
    /\ svc_calls[1].gave \in {"empty", "error"}

\* C32: when create_embeddings fails or gives an empty list, the search (of
\* either mode) returns Err, has sent no query to the vector index and
\* returns no results.
C32_EmbeddingFailureIsFatal ==
    EmbeddingFailed =>
      /\ outcome = "err"
      /\ \A i \in 1..Len(svc_calls) : svc_calls[i].svc # "search_points"
      /\ search_results = <<>>
      /\ results = <<>>

C32_Witness ==
    /\ EmbeddingFailed
    /\ SearchBy("search_collection_hybrid")
    /\ svc_calls[1].gave = "empty"
    /\ Len(index) > 0

C32_WitnessSimple ==
    /\ EmbeddingFailed
    /\ SearchBy("search_collection")
    /\ Len(index) > 0

\* the places of results that hold an id of 7 segments
IssuePlaces == {i \in 1..Len(results) : Len(results[i][1]) = 7}

\* the survivors are returned pool by pool: first the pool the question
\* asks for (projects when it asks for none or for both), then the other
PoolOrder ==
    IF is_issue(question) /\ ~is_project(question)
    THEN \A i \in IssuePlaces, j \in 1..Len(results) :
            j \notin IssuePlaces => i < j
    ELSE \A i \in IssuePlaces, j \in 1..Len(results) :
            j \notin IssuePlaces => j < i

\* C35: a surviving candidate is in the issue pool exactly if its id has 7
\* segments and in the project pool otherwise (5, 6 or 8 segments), never in
\* both and never in none; the result hands the pools out one after the
\* other.
C35_PoolBySegments ==
    (Searched /\ SearchBy("search_collection_hybrid")) =>
      /\ \A p \in Range(Survivors) :
            /\ Entry(p) \in Range(IssuePushed(search_results))
                  <=> SegmentsOf(p) = 7
            /\ Entry(p) \in Range(ProjectPushed(search_results))
                  <=> SegmentsOf(p) # 7
      /\ Len(IssuePushed(search_results))
            + Len(ProjectPushed(search_results)) = Len(Survivors)
      /\ PoolOrder

C35_Witness ==
    /\ Searched /\ SearchBy("search_collection_hybrid")
    /\ is_issue(question) /\ ~is_project(question)
    /\ \E n \in {5, 6, 8} : \E p \in Range(Survivors) :
          SegmentsOf(p) = n /\ Pair(p) \in Range(results)
    /\ \A n \in {6, 7, 8} : \E p \in Range(Survivors) : SegmentsOf(p) = n
    /\ Len(results) = 5

\* the last search sent its query to the vector index and the query failed
SearchFailed ==
    \E i \in 1..Len(svc_calls) :
        svc_calls[i].svc = "search_points" /\ svc_calls[i].gave = "error"

\* what the caller of the last search gets: Ok(list) or Err
Returned ==
    IF outcome \in {"ok", "ok_logged"} THEN [ret |-> "Ok", list |-> results]
    ELSE [ret |-> "Err"]

\* C40: a simple search whose neighbour search fails returns Ok with an
\* empty list, which is also what it returns after a neighbour search that
\* went through and found no point above 0.79.
C40_SearchFailureHidden ==
    SearchBy("search_collection") =>
      /\ SearchFailed => Returned = [ret |-> "Ok", list |-> <<>>]
      /\ (Searched /\ \A p \in Range(search_results) : p.score <= 79)
            => Returned = [ret |-> "Ok", list |-> <<>>]

C40_Witness ==
    /\ SearchBy("search_collection")
    /\ SearchFailed
    /\ \E i \in 1..Len(index) : index[i].score > 79

\* the other way to the same return value
C40_WitnessNoneAbove ==
    /\ SearchBy("search_collection")
    /\ Searched
    /\ Len(search_results) = 5
    /\ results = <<>>

\* the members of a pool that the result holds, and those it leaves out
ReturnedOf(pool) == {p \in Range(pool) : Pair(p) \in Range(results)}
OmittedOf(pool) == {p \in Range(pool) : Pair(p) \notin Range(results)}

HighestFirst(pool) ==
    \A r \in ReturnedOf(pool), o \in OmittedOf(pool) : r.score >= o.score

\* C34: when a hybrid search returns some and leaves out some survivors of
\* a pool, every returned entry of the pool scores at least as high as
\* every survivor of that pool that was left out.
C34_PoolsHighestFirst ==
    Searched => HighestFirst(ProjectSurvivors) /\ HighestFirst(IssueSurvivors)

(***************************************************************************)
(* The states of an entity: Unsummarized (no row in                        *)
(* issues_repos_summarized), Summarized (a row, indexed = 0) and Indexed   *)
(* (a row, indexed = 1).                                                   *)
(***************************************************************************)
EntityState(tbl, id) ==
    IF ~HasRow(tbl, id) THEN "Unsummarized"
    ELSE IF tbl[id].indexed THEN "Indexed" ELSE "Summarized"

StateRank(st) ==
    CASE st = "Unsummarized" -> 0 [] st = "Summarized" -> 1 [] OTHER -> 2

\* C36: no step of the pipeline deletes a row of issues_repos_summarized or
\* clears its indexed flag, and a row is created with the flag cleared: the
\* state of an entity never moves back, whether it is summarized again or
\* marked again.
C36_ForwardOnly ==
    [][/\ \A id \in DOMAIN summarized :
             StateRank(EntityState(summarized', id))
               >= StateRank(EntityState(summarized, id))
       /\ \A id \in DOMAIN summarized' \ DOMAIN summarized :
             EntityState(summarized', id) = "Summarized"]_vars

\* an entity that is Indexed was summarized again and its record written
C36_Witness ==
    /\ last.op = "summarize_project_add_in_db"
    /\ last.ret = "Ok" /\ last.wrote = "Ok"
    /\ EntityState(summarized, last.id) = "Indexed"

\* C39: every point of the collection that was uploaded for an entity whose
\* record has the indexed flag set carries, as its text, the summary the
\* record holds now, after any summarizations, repeated summarizations and
\* indexing batches.
C39_PayloadIsStoredSummary ==
    \A i \in 1..Len(index) :
       LET eid == index[i].payload.issue_or_project_id
       IN  EntityState(summarized, eid) = "Indexed"
             => index[i].payload.text = summarized[eid].summary

\* an indexed entity with a point was summarized again, and the reply
\* held another summary than the record
C39_Witness ==
    /\ last.op = "summarize_project_add_in_db"
    /\ last.ret = "Ok" /\ last.wrote = "Ok"
    /\ EntityState(summarized, last.id) = "Indexed"
    /\ PointsFor(index, last.id) >= 1
    /\ parse_summary_and_keywords(last.gen.text).summary
          # summarized[last.id].summary

\* C37: the requests of one walk carry pairwise different cursors, and no
\* node is appended to the accumulator twice, whatever shape the responses
\* have.
C37_NoCursorTwice ==
    (walker \in Walkers) =>
      /\ \A i, j \in 1..Len(requests) : i # j => requests[i] # requests[j]
      /\ \A i, j \in 1..Len(all_items) : i # j => all_items[i] # all_items[j]

(***************************************************************************)
(* The HTTP handlers of tester_hook.  One action is one invocation: the    *)
(* router's dispatch, the handler's body, and every send_response and      *)
(* service call it makes.  `hook` keeps the invocation.                    *)
(***************************************************************************)
\* most repositories one crawl returns
MaxCrawl == 3

\* router.insert(path, vec![get(..)]) / vec![post(..)]
Routes ==
    {"/run", "/deep", "/comment", "/vector", "/vector/create",
     "/vector/delete"}

MethodOf(path) == IF path = "/run" THEN "GET" ELSE "POST"

HandlerOf(path) ==
    CASE path = "/run" -> "trigger"
      [] path = "/deep" -> "check_deep_handler"
      [] path = "/comment" -> "get_comments_by_post_handler"
      [] path = "/vector" -> "check_vdb_by_post_handler"
      [] path = "/vector/create" -> "create_vdb_handler"
      [] path = "/vector/delete" -> "delete_vdb_handler"

\* a request body: bytes that are no JSON, or a JSON object in which each of
\* the three fields the handlers know is absent, null, a string or a number
FieldShapes == {"absent", "null", "string", "number"}

NotJsonBody ==
    [json |-> FALSE, issue_id |-> "absent", collection_name |-> "absent",
     text |-> "absent"]

RequestBodies ==
    {NotJsonBody}
    \cup [json : {TRUE}, issue_id : FieldShapes,
          collection_name : FieldShapes, text : FieldShapes]

\* the fields of the struct a handler parses its body into: `String` fields
\* and `Option<String>` fields
StringFields(path) == IF path = "/comment" THEN {"issue_id"} ELSE {}

OptionFields(path) ==
    CASE path = "/vector" -> {"issue_id", "collection_name", "text"}
      [] path = "/deep" -> {"text"}
      [] path \in {"/vector/create", "/vector/delete"} -> {"collection_name"}
      [] OTHER -> {}

\* serde_json::from_slice(&_body) into the handler's struct is Ok
Deserializes(path, body) ==
    /\ body.json
    /\ \A f \in StringFields(path) : body[f] = "string"
    /\ \A f \in OptionFields(path) : body[f] # "number"

\* `if let Some(x) = load.field`
IsSome(body, f) == body[f] = "string"

\* faulty variant: a body that does not parse is answered with a 400
OnParseError_BadRequest == <<400>>
\* Err(_e) => { log::error!("failed to parse body: {}", _e); return; }
OnParseError == <<>>

Invocation(fn, path, method, body, sent, calls) ==
    [fn |-> fn, path |-> path, method |-> method, body |-> body,
     sent |-> sent, calls |-> calls, status |-> "returned",
     crawl |-> <<>>, filled |-> <<>>, submitted |-> <<>>]

Handled(path, body, sent, calls) ==
    Invocation(HandlerOf(path), path, MethodOf(path), body, sent, calls)

\* every request is served by an invocation of its own, which starts with
\* nothing sent and nothing called
NoRequest ==
    [fn |-> "none", path |-> "", method |-> "", body |-> NotJsonBody,
     sent |-> <<>>, calls |-> <<>>, status |-> "returned",
     crawl |-> <<>>, filled |-> <<>>, submitted |-> <<>>]

\* handler: route(router) finds no handler for the path, or none for the
\* method
handler ==
    /\ hook = NoRequest
    /\ \E path \in Routes \cup {"/other"}, method \in {"GET", "POST"},
          body \in {NotJsonBody} :
         /\ path \in Routes => method # MethodOf(path)
         /\ hook' = Invocation("handler", path, method, body,
                               IF path \in Routes THEN <<405>> ELSE <<404>>,
                               <<>>)
    /\ UNCHANGED <<searchVars, walkVars, pipeVars, raceVars, storeVars,
                   drainVars>>

get_comments_by_post_handler ==
    /\ hook = NoRequest
    /\ \E body \in RequestBodies, found \in BOOLEAN :
         hook' =
           IF ~Deserializes("/comment", body)
           THEN Handled("/comment", body, OnParseError, <<>>)
           ELSE Handled("/comment", body,
                        IF found THEN <<200>> ELSE <<>>,
                        <<"get_pool", "get_comments_by_issue_id">>)
    /\ UNCHANGED <<searchVars, walkVars, pipeVars, raceVars, storeVars,
                   drainVars>>

\* search_collection returns Err only when the embedding failed
check_vdb_by_post_handler ==
    /\ hook = NoRequest
    /\ \E body \in RequestBodies, e \in Embeddings :
         hook' =
           IF ~Deserializes("/vector", body)
           THEN Handled("/vector", body, OnParseError, <<>>)
           ELSE LET text == IsSome(body, "text")
                    name == IsSome(body, "collection_name")
                IN  Handled("/vector", body,
                      (IF text /\ Embedded(e) THEN <<200>> ELSE <<>>)
                        \o (IF name THEN <<200>> ELSE <<>>),
                      (IF text THEN <<"search_collection">> ELSE <<>>)
                        \o (IF name THEN <<"check_vector_db">> ELSE <<>>))
    /\ UNCHANGED <<searchVars, walkVars, pipeVars, raceVars, storeVars,
                   drainVars>>

check_deep_handler ==
    /\ hook = NoRequest
    /\ \E body \in RequestBodies, replied \in BOOLEAN :
         hook' =
           IF ~Deserializes("/deep", body) \/ ~IsSome(body, "text")
           THEN Handled("/deep", body, <<>>, <<>>)
           ELSE Handled("/deep", body,
                        IF replied THEN <<200>> ELSE <<>>,
                        <<"chat_inner_async">>)
    /\ UNCHANGED <<searchVars, walkVars, pipeVars, raceVars, storeVars,
                   drainVars>>

\* create_vdb_handler and delete_vdb_handler: the failure of the collection
\* call is logged, the count is read and sent
CollectionHandler(path, svc) ==
    /\ hook = NoRequest
    /\ \E body \in RequestBodies :
         hook' =
           IF ~Deserializes(path, body)
           THEN Handled(path, body, OnParseError, <<>>)
           ELSE IF ~IsSome(body, "collection_name")
           THEN Handled(path, body, <<>>, <<>>)
           ELSE Handled(path, body, <<200>>, <<svc, "check_vector_db">>)
    /\ UNCHANGED <<searchVars, walkVars, pipeVars, raceVars, storeVars,
                   drainVars>>

delete_vdb_handler ==
    CollectionHandler("/vector/delete", "delete_collection")

create_vdb_handler ==
    CollectionHandler("/vector/create", "create_my_collection")

\* what the two calls of the loop body return for one repository
FillOutcomes == {StmtOk, IoFailure, ConnFailure}

FillReturns(r) == Swallowed(r.fill).tag

SummarizeReturns(r) == chat_inner_async(r.gen).ret

\* .expect(..) on a Result: panics on Err
Expect(ret) == ret = "Err"

\* the repository at which the loop panics, Len(crawl) + 1 when none
PanicsAt(crawl) ==
    LET bad == {i \in 1..Len(crawl) :
                   Expect(FillReturns(crawl[i]))
                     \/ Expect(SummarizeReturns(crawl[i]))}
    IN  IF bad = {} THEN Len(crawl) + 1
        ELSE CHOOSE i \in bad : \A j \in bad : i <= j

IdsOf(crawl, keep(_)) ==
    LET s == SelectSeq(crawl, keep) IN [i \in 1..Len(s) |-> s[i].id]

\* trigger: the crawl cycle behind GET /run
trigger ==
    /\ hook = NoRequest
    /\ \E listOk \in BOOLEAN, crawlOk \in BOOLEAN, n \in 0..MaxCrawl :
       \E fo \in [1..n -> FillOutcomes], go \in [1..n -> GenOutcomes] :
         LET crawl == IF listOk /\ crawlOk
                      THEN [i \in 1..n |->
                              [id |-> ProjectUrl(i), no |-> i,
                               fill |-> fo[i], gen |-> go[i]]]
                      ELSE <<>>
             k == PanicsAt(crawl)
             \* fill_project_w_repo_data ran and its statement went through
             filled == IdsOf(crawl, LAMBDA r : r.no <= k /\ r.fill.kind = "ok")
             \* summarize_project_add_in_db_one_step was called
             submitted ==
                 IdsOf(crawl, LAMBDA r : r.no <= k
                                          /\ ~Expect(FillReturns(r)))
         IN  /\ (~listOk \/ ~crawlOk) => n = 0
             /\ ~listOk => crawlOk
             /\ hook' = [fn |-> "trigger", path |-> "/run", method |-> "GET",
                         body |-> NotJsonBody, sent |-> <<>>,
                         calls |-> <<"get_pool", "get_projects_as_repo_list">>
                                   \o (IF listOk
                                       THEN <<"search_repos_in_batch">>
                                       ELSE <<>>),
                         status |-> IF listOk /\ crawlOk /\ k > n
                                    THEN "returned" ELSE "panicked",
                         crawl |-> crawl, filled |-> filled,
                         submitted |-> submitted]
    /\ UNCHANGED <<searchVars, walkVars, pipeVars, raceVars, storeVars,
                   drainVars>>

InitHook ==
    /\ hook = NoRequest
    /\ SearchIdle
    /\ WalkIdle
    /\ PipeIdle
    /\ RaceIdle
    /\ StoreIdle
    /\ DrainIdle

NextHook ==
    \/ handler
    \/ trigger
    \/ check_deep_handler
    \/ get_comments_by_post_handler
    \/ check_vdb_by_post_handler
    \/ create_vdb_handler
    \/ delete_vdb_handler

SpecHook == InitHook /\ [][NextHook]_vars

\* the body does not parse into what the handler of the path expects
BadBody(path, body) ==
    \/ ~body.json
    \/ path = "/comment" /\ body.issue_id # "string"
    \/ path = "/vector"
         /\ "number" \in {body.issue_id, body.collection_name, body.text}
    \/ path \in {"/vector/create", "/vector/delete"}
         /\ body.collection_name = "number"

ParsingHandlers ==
    {"get_comments_by_post_handler", "check_vdb_by_post_handler",
     "create_vdb_handler", "delete_vdb_handler"}

\* C31: the handlers of /comment, /vector, /vector/create and /vector/delete
\* end without a response and without a call to the store or to the vector
\* index when the body does not parse.
C31_BadBodySilent ==
    (hook.fn \in ParsingHandlers /\ BadBody(hook.path, hook.body))
    => /\ hook.sent = <<>>
       /\ hook.calls = <<>>
       /\ hook.status = "returned"

C31_Witness ==
    /\ hook.fn = "check_vdb_by_post_handler"
    /\ hook.body.json
    /\ hook.body.text = "string"
    /\ hook.body.collection_name = "number"
    /\ hook.sent = <<>>

\* project i of the crawl failed in its upsert or in its summarization
FailedAt(i) ==
    \/ hook.crawl[i].fill.kind # "ok"
    \/ ~hook.crawl[i].gen.ok

\* C33: when the upsert or the summarization of one repository of a crawl
\* fails, every other repository of the crawl is still upserted and handed
\* to the summarization in the same cycle.
C33_FailureIsolated ==
    hook.fn = "trigger" =>
      \A i, j \in 1..Len(hook.crawl) :
         (i # j /\ FailedAt(i) /\ ~FailedAt(j))
           => /\ \E m \in 1..Len(hook.filled) :
                    hook.filled[m] = hook.crawl[j].id
              /\ \E m \in 1..Len(hook.submitted) :
                    hook.submitted[m] = hook.crawl[j].id

\* C38: an invocation sends at most one response, whatever the body.
C38_AtMostOneResponse == Len(hook.sent) <= 1

====
